---- MODULE Spec2Model ----
(***************************************************************************)
(* A model of the California School Dashboard client: the SummaryCard      *)
(* record and its JSON decoder (summaryCard.cpp), and the concurrent fetch *)
(* engine of CaliforniaDashboardAPI (CaliforniaDashboardAPI.cpp): URL      *)
(* intake, the worker pool with its work queue and slotted output array,   *)
(* the retry loop of fetchSummaryCard and the token-bucket limiter.        *)
(*                                                                         *)
(* The metadata pass of main.cpp (enrichCardsWithMetadata) is modelled too.*)
(*                                                                         *)
(* The specifications share the variables:                                 *)
(*   Spec         the fetch engine (coordinator and pool workers);         *)
(*   IntakeSpec   calls of loadInURLs, with argument and result kept;      *)
(*   CardSpec     one SummaryCard driven through its public operations;    *)
(*   EntrySpec    parseIndicator applied to one entry;                     *)
(*   EnrichSpec   enrichCardsWithMetadata and its worker threads;          *)
(*   PoolSpec     the pool at the grain of its mutexes and of the wait;    *)
(*   PoolFair     PoolSpec under fair scheduling;                          *)
(*   LimiterSpec  acquireToken called by concurrent threads, with time;    *)
(*   LimiterFair  LimiterSpec under fair scheduling and an advancing clock.*)
(*   RefineSpec   the pool and the earlier lock-guarded version, one run   *)
(*                each on the same URL list.                               *)
(***************************************************************************)
EXTENDS Integers, Sequences, FiniteSets, TLC

VARIABLES
    \* ---- CaliforniaDashboardAPI object -------------------------------
    pool_size_,              \* constructor argument pool_size
    max_requests_per_sec_,   \* constructor argument, a rational <<num, den>>
    urls_,                   \* std::vector<std::string> urls_
    allSummaryCardsVector,   \* the public output array
    total_, completed_, next_slot_,
    tokens_,                 \* token bucket level, in units (see TokenUnit)
    sinceRefill,             \* monotonic clock now minus last_refill_, in ticks
    rate_mutex_,             \* holder of rate_mutex_ (0 = free)
    \* ---- one call of runFullURLFetch (the coordinator thread) ---------
    cpc,                     \* coordinator position
    base_slot, n,            \* locals of runFullURLFetch
    queue,                   \* WorkQueue: [items, done]
    handles,                 \* args[i].curl: "none" | "live" | "freed"
    resolve_list,            \* the curl_slist: "null" | "live" | "freed"
    spawned,                 \* local spawned
    runResult,               \* value returned by the last call ("none" before)
    \* ---- pool workers (threads 1..n of the current run) ---------------
    wpc,                     \* position of each worker
    wurl, wslot,             \* locals url and slot of poolWorker
    attempt, result,         \* locals of fetchSummaryCard
    http_code,               \* local http_code of fetchSummaryCard
    ret,                     \* value fetchSummaryCard returned to poolWorker
    \* ---- observations (history variables, not program state) ----------
    fetchCalls,              \* slot -> number of fetchSummaryCard calls on it
    decoded,                 \* worker -> its fetch called parseRawData
    received,                \* worker -> bytes delivered by its last perform
    slept,                   \* worker -> the back-off sleeps of its fetch, in ms
    failedSlots,             \* slots whose fetch ended in a failure
    setupFailure,            \* why the last run could not set up its workers
    cardOp,                  \* the last operation applied to card
    \* ---- a stand-alone SummaryCard (CardSpec) -------------------------
    card,
    \* ---- threads calling acquireToken (LimiterSpec) -------------------
    lpc,                     \* position of each calling thread
    sleepLeft,               \* ticks left of each thread's nanosleep
    calls,                   \* calls of acquireToken each thread has made
    ages,                    \* age in ticks -> returns of acquireToken that old
    \* ---- one call of parseIndicator (EntrySpec) -----------------------
    entryArg,                \* the JSON value handed to parseIndicator
    parsedInd,               \* what the call returned (<<>> before it)
    \* ---- the last call of loadInURLs (IntakeSpec) ---------------------
    loadArg,                 \* the list it was called with
    loadBefore,              \* urls_ when it was called
    loadReturn,              \* "none" before any call, else "true"/"false"
    \* ---- enrichCardsWithMetadata (EnrichSpec) -------------------------
    fetched,                 \* the URL each card of the array was fetched from
    ecards,                  \* the array `cards` the pass works on
    urlMetadata,             \* url -> <<schoolName, year>>
    lookup,                  \* key -> <<schoolName, year>>
    nThreads,                \* max(1, hardware_concurrency())
    epc,                     \* the calling thread: idle, spawn, join, returned, crashed
    tcur,                    \* the loop variable t of the spawn loop
    espawned,                \* the local `spawned`
    jcur,                    \* the loop variable t of the join loop
    tids,                    \* tids[t]: "set" once pthread_create stored an id
    ethread,                 \* enrichment thread t: its state, position and end
    handed,                  \* the ranges [start, end) given to tasks, in order
    \* ---- the pool at the grain of its locks (PoolSpec) ----------------
    qmtx,                    \* holder of queue.mtx: 0 free, a worker, -1 the coordinator
    progress_mutex_,         \* holder of progress_mutex_: 0 free, or a worker
    wdone,                   \* the local `done` of each worker
    progressLog,             \* the progress lines written in this run, in order
    slotUrl,                 \* slot -> the URL fetchSummaryCard was called with
    popLog,                  \* the pops of this run, in order: worker and URL
    \* ---- the earlier, lock-guarded delivery (RefineSpec) --------------
    guardedVector,           \* allSummaryCardsVector of the lock-guarded version
    gpc,                     \* position of its runFullURLFetch
    gthread,                 \* its thread i: state, local SummaryCard, bytes received
    mutex_,                  \* holder of mutex_: 0 free, or a thread
    gResult,                 \* value its runFullURLFetch returned ("none" before)
    finalResponse            \* slot, URL and bytes of the last perform of each fetch

apiVars   == <<pool_size_, max_requests_per_sec_, urls_, allSummaryCardsVector,
               total_, completed_, next_slot_>>
rateVars  == <<tokens_, sinceRefill, rate_mutex_>>
coordVars == <<cpc, base_slot, n, queue, handles, resolve_list, spawned,
               runResult>>
workVars  == <<wpc, wurl, wslot, attempt, result, http_code, ret>>
obsVars   == <<fetchCalls, decoded, received, slept, failedSlots, setupFailure>>
cardVars  == <<card, cardOp>>
limVars   == <<lpc, sleepLeft, calls, ages>>
unitVars  == <<entryArg, parsedInd>>
loadVars  == <<loadArg, loadBefore, loadReturn>>
enrichVars == <<fetched, ecards, urlMetadata, lookup, nThreads, epc, tcur,
                espawned, jcur, tids, ethread, handed>>
poolVars  == <<qmtx, progress_mutex_, wdone, progressLog, slotUrl, popLog>>
refineVars == <<guardedVector, gpc, gthread, mutex_, gResult, finalResponse>>
vars      == <<apiVars, rateVars, coordVars, workVars, obsVars, cardVars, limVars,
               unitVars, loadVars, enrichVars, poolVars, refineVars>>

-----------------------------------------------------------------------------
(***************************************************************************)
(* Bounds of the model.                                                    *)
(***************************************************************************)
MaxUrls    == 2     \* URLs loaded into one coordinator
MaxPool    == 2     \* largest pool_size
MaxCards   == 2     \* largest output array
MaxRawLen  == 3     \* longest rawData built by appendRawData in CardSpec
NumCallers == 2     \* threads calling acquireToken in LimiterSpec
MaxCalls   == 3     \* calls of acquireToken by one thread in LimiterSpec

Min(a, b) == IF a < b THEN a ELSE b

-----------------------------------------------------------------------------
(***************************************************************************)
(* JSON values (nlohmann::json), as far as the decoder inspects them.      *)
(***************************************************************************)
JNull        == [t |-> "null"]
JBool(b)     == [t |-> "boolean", b |-> b]
\* A number is held as the library holds it: kind says which of
\* number_unsigned, number_integer and number_float it is.  Its value is
\* hi * 2^32 + n with n a 32-bit word read as signed (so that every word of
\* a 64-bit value fits the integers of the model), plus one half (away
\* from zero) when frac is set.  text is its JSON text.
JWide(k, h, v, txt) ==
    [t |-> "number", kind |-> k, hi |-> h, n |-> v, frac |-> FALSE, text |-> txt]
JFrac(v, txt) ==
    [t |-> "number", kind |-> "float", hi |-> 0, n |-> v, frac |-> TRUE, text |-> txt]
JNum(k, v)   == JWide(k, 0, v, ToString(v))
JStr(s)      == [t |-> "string", s |-> s]
JArr(a)      == [t |-> "array", a |-> a]
JObj(o)      == [t |-> "object", o |-> o]

is_null(j)            == j.t = "null"
is_object(j)          == j.t = "object"
is_array(j)           == j.t = "array"
is_string(j)          == j.t = "string"
is_boolean(j)         == j.t = "boolean"
is_number(j)          == j.t = "number"
is_number_unsigned(j) == j.t = "number" /\ j.kind = "unsigned"
contains(j, key)      == is_object(j) /\ key \in DOMAIN j.o

\* basic_json::clear(): the value keeps its type and becomes empty.
JsonClear(j) ==
    CASE j.t = "array"   -> JArr(<<>>)
      [] j.t = "object"  -> JObj(<<>>)
      [] j.t = "string"  -> JStr("")
      [] j.t = "boolean" -> JBool(FALSE)
      [] j.t = "number"  -> JNum(j.kind, 0)
      [] OTHER           -> j

(***************************************************************************)
(* Response bodies.  A body is a sequence of lexemes; each lexeme stands   *)
(* for a piece of text.  "WS" is a run of white space, "LB" and "RB" are   *)
(* the brackets of an array, "LT" is the start of an HTML page, and the    *)
(* other lexemes are complete JSON values whose text LexValue gives.       *)
(***************************************************************************)
PrimaryX(year) ==
    JObj([cdsCode |-> JStr("X"), schoolYearId |-> JNum("unsigned", year)])

LexValue(lx) ==
    CASE lx = "E1"  -> JObj([indicatorId |-> JNum("unsigned", 1),
                             primary |-> PrimaryX(9), secondary |-> JNull])
      [] lx = "E7"  -> JObj([indicatorId |-> JNum("unsigned", 7),
                             primary |-> PrimaryX(9), secondary |-> JNull])
      [] lx = "E7b" -> JObj([indicatorId |-> JNum("unsigned", 7),
                             primary |-> PrimaryX(10), secondary |-> JNull])
      [] lx = "E99" -> JObj([indicatorId |-> JNum("unsigned", 99),
                             primary |-> PrimaryX(9), secondary |-> JNull])
      [] lx = "EP"  -> JObj([indicatorId |-> JNum("unsigned", 1)])
      [] lx = "N5"  -> JNum("unsigned", 5)
      [] lx = "NUL" -> JNull

ValueLexemes == {"E1", "E7", "E7b", "E99", "EP", "N5", "NUL"}
Lexemes      == ValueLexemes \cup {"WS", "LB", "RB", "LT"}

\* The first byte of a lexeme's text.
FirstByte(lx) ==
    CASE lx \in {"E1", "E7", "E7b", "E99", "EP"} -> "{"
      [] lx = "LB"  -> "["
      [] lx = "RB"  -> "]"
      [] lx = "LT"  -> "<"
      [] lx = "N5"  -> "5"
      [] lx = "NUL" -> "n"
      [] lx = "WS"  -> " "

NotWS(lx) == lx # "WS"

\* json::parse: the parsed value, or a json::parse_error.
ParseJson(raw) ==
    LET tk == SelectSeq(raw, NotWS) IN
    IF Len(tk) = 1 /\ tk[1] \in ValueLexemes
        THEN [ok |-> TRUE, value |-> LexValue(tk[1])]
    ELSE IF /\ Len(tk) >= 2
            /\ tk[1] = "LB"
            /\ tk[Len(tk)] = "RB"
            /\ \A i \in 2..(Len(tk) - 1) : tk[i] \in ValueLexemes
        THEN [ok |-> TRUE,
              value |-> JArr([i \in 1..(Len(tk) - 2) |-> LexValue(tk[i + 1])])]
    ELSE [ok |-> FALSE, value |-> JNull]

-----------------------------------------------------------------------------
(***************************************************************************)
(* SummaryCard (summaryCard.hh, summaryCard.cpp)                           *)
(***************************************************************************)
\* The member initializer of SummaryCard::indicatorsMap.
IndicatorTable ==
    [i \in 1..8 |->
        CASE i = 1 -> "CHRONIC_ABSENTEEISM"
          [] i = 2 -> "SUSPENSION_RATE"
          [] i = 3 -> "ENGLISH_LEARNER_PROGRESS"
          [] i = 4 -> "GRADUATION_RATE"
          [] i = 5 -> "COLLEGE_CAREER_INDICATOR"
          [] i = 6 -> "ELA_POINTS_ABOVE_BELOW"
          [] i = 7 -> "MATHEMATICS"
          [] i = 8 -> "SCIENCE"]

EmptyMap == <<>>    \* a std::map with no entries

\* SummaryCard::SummaryCard()
DefaultCard ==
    [rawData                |-> <<>>,
     rawJsonData            |-> JArr(<<>>),
     indicatorsMap          |-> IndicatorTable,
     indicatorVector        |-> <<>>,
     categoryToIndicatorMap |-> EmptyMap,
     schoolName             |-> "",
     year                   |-> ""]

\* Values an uninitialised scalar member of `indicator ind;` may hold.
Indeterminate == {0, 77}

\* C++ values.  A size_t or a long is its 64 bits, as two words: hi and lo,
\* lo read as a signed 32-bit word.  An int is an integer of the model.  A
\* float is an integer part with an optional half, after rounding to the 24
\* bits of a float's significand.
Wide(h, l)  == [hi |-> h, lo |-> l]
Float(h, v, f) == [hi |-> h, n |-> v, frac |-> f]

\* static_cast<int>(size_t): the low 32 bits, read as signed.
CastInt(v) == v.lo

\* The distance between neighbouring floats at magnitude a >= 0.
RECURSIVE Ulp(_)
Ulp(a) == IF a < 16777216 THEN 1 ELSE 2 * Ulp(a \div 2)

\* x rounded to the nearest multiple of step, ties to the even multiple.
RoundTo(x, step) ==
    LET q == x \div step
        r == x % step
    IN  IF 2 * r < step THEN q * step
        ELSE IF 2 * r > step THEN (q + 1) * step
        ELSE IF q % 2 = 0 THEN q * step
        ELSE (q + 1) * step

\* get<size_t>() and get<long>() of a number: the 64 bits of an integer,
\* the truncated value of a float.
GetWide(j) == Wide(j.hi, j.n)

\* get<int>() of a number: static_cast<int> of what the value holds.
GetInt(j) == j.n

\* get<float>() of a number (for |value| < 2^33).
GetFloat(j) ==
    IF j.hi = 0
        THEN IF (IF j.n < 0 THEN -j.n ELSE j.n) < 16777216
                THEN Float(0, j.n, j.frac)
                ELSE Float(0, RoundTo(j.n, Ulp(IF j.n < 0 THEN -j.n ELSE j.n)), FALSE)
    ELSE IF j.n < 0 THEN Float(j.hi, RoundTo(j.n, 256), FALSE)
    ELSE Float(j.hi, RoundTo(j.n, 512), FALSE)

\* basic_json::dump() of a value that is not a string.
Dump(j) ==
    CASE j.t = "number"  -> j.text
      [] j.t = "boolean" -> IF j.b THEN "true" ELSE "false"
      [] j.t = "array"   -> IF j.a = <<>> THEN "[]" ELSE "[..]"
      [] j.t = "object"  -> IF DOMAIN j.o = {} THEN "{}" ELSE "{..}"
      [] OTHER           -> "null"

safeString(obj, key) ==
    IF ~contains(obj, key) \/ is_null(obj.o[key]) THEN ""
    ELSE IF is_string(obj.o[key]) THEN obj.o[key].s
    ELSE Dump(obj.o[key])

safeInt(obj, key) ==
    IF ~contains(obj, key) \/ is_null(obj.o[key]) THEN 0
    ELSE IF is_number(obj.o[key]) THEN GetInt(obj.o[key])
    ELSE 0

safeLong(obj, key) ==
    IF ~contains(obj, key) \/ is_null(obj.o[key]) THEN Wide(0, 0)
    ELSE IF is_number(obj.o[key]) THEN GetWide(obj.o[key])
    ELSE Wide(0, 0)

safeSizeT(obj, key) ==
    IF ~contains(obj, key) \/ is_null(obj.o[key]) THEN Wide(0, 0)
    ELSE IF is_number_unsigned(obj.o[key]) THEN GetWide(obj.o[key])
    ELSE IF is_number(obj.o[key]) THEN GetWide(obj.o[key])
    ELSE Wide(0, 0)

safeFloat(obj, key) ==
    IF ~contains(obj, key) \/ is_null(obj.o[key]) THEN Float(0, 0, FALSE)
    ELSE IF is_number(obj.o[key]) THEN GetFloat(obj.o[key])
    ELSE Float(0, 0, FALSE)

safeBool(obj, key) ==
    IF ~contains(obj, key) \/ is_null(obj.o[key]) THEN FALSE
    ELSE IF is_boolean(obj.o[key]) THEN obj.o[key].b
    ELSE FALSE

\* `indicator ind;`: the strings are empty and the json members null; the
\* scalar members have no initializer and hold the indeterminate value junk.
FreshIndicator(junk) ==
    [indicatorCategory |-> "",
     primary           |-> JNull,
     secondary         |-> JNull,
     cdsCode           |-> "",
     indicatorId       |-> Wide(0, junk),
     status            |-> Float(0, junk, FALSE),
     change            |-> Float(0, junk, FALSE),
     changeId          |-> junk,
     statusId          |-> junk,
     performance       |-> junk,
     totalGroups       |-> Wide(0, junk),
     red               |-> junk,
     orange            |-> junk,
     yellow            |-> junk,
     green             |-> junk,
     blue              |-> junk,
     count             |-> Wide(0, junk),
     studentGroup      |-> "",
     schoolYearId      |-> Wide(0, junk),
     isPrivateData     |-> junk # 0]

\* The int the table is searched with is in the table.
InTable(imap, k) == k \in DOMAIN imap

\* SummaryCard::parseIndicator.  imap is the card's indicatorsMap, junk the
\* indeterminate value of the scalar members that no assignment reaches.
ParseIndicator(entry, imap, junk) ==
    IF ~is_object(entry) THEN FreshIndicator(junk)
    ELSE
    LET id  == safeSizeT(entry, "indicatorId")
        cat == IF InTable(imap, CastInt(id)) THEN imap[CastInt(id)] ELSE "UNKNOWN"
        p   == IF contains(entry, "primary") THEN entry.o["primary"] ELSE JNull
        s   == IF contains(entry, "secondary") THEN entry.o["secondary"] ELSE JNull
        ind == [FreshIndicator(junk) EXCEPT !.indicatorId = id,
                                            !.indicatorCategory = cat,
                                            !.primary = p,
                                            !.secondary = s]
    IN  IF ~is_null(p) /\ is_object(p)
           THEN [ind EXCEPT !.cdsCode       = safeString(p, "cdsCode"),
                            !.status        = safeFloat(p, "status"),
                            !.change        = safeFloat(p, "change"),
                            !.changeId      = safeInt(p, "changeId"),
                            !.statusId      = safeInt(p, "statusId"),
                            !.performance   = safeInt(p, "performance"),
                            !.totalGroups   = safeSizeT(p, "totalGroups"),
                            !.red           = safeInt(p, "red"),
                            !.orange        = safeInt(p, "orange"),
                            !.yellow        = safeInt(p, "yellow"),
                            !.green         = safeInt(p, "green"),
                            !.blue          = safeInt(p, "blue"),
                            !.count         = safeLong(p, "count"),
                            !.studentGroup  = safeString(p, "studentGroup"),
                            !.schoolYearId  = safeSizeT(p, "schoolYearId"),
                            !.isPrivateData = safeBool(p, "isPrivateData")]
           ELSE ind

\* std::map::operator[] assignment.
MapPut(m, k, v) == [x \in DOMAIN m \cup {k} |-> IF x = k THEN v ELSE m[x]]

\* A loop that decodes every entry, object or not.
RECURSIVE ParseLoopNoSkip(_, _, _, _, _, _)
ParseLoopNoSkip(arr, i, res, cmap, imap, junk) ==
    IF i > Len(arr) THEN [result |-> res, cmap |-> cmap]
    ELSE LET ind == ParseIndicator(arr[i], imap, junk)
         IN  ParseLoopNoSkip(arr, i + 1, Append(res, ind),
                             MapPut(cmap, ind.indicatorCategory, ind), imap, junk)

\* The loop of SummaryCard::parseIndicators from entry i on: the indicators
\* pushed so far and the card's categoryToIndicatorMap.
RECURSIVE ParseLoop(_, _, _, _, _, _)
ParseLoop(arr, i, res, cmap, imap, junk) ==
    IF i > Len(arr) THEN [result |-> res, cmap |-> cmap]
    ELSE IF ~is_object(arr[i]) THEN ParseLoop(arr, i + 1, res, cmap, imap, junk)
    ELSE LET ind == ParseIndicator(arr[i], imap, junk)
         IN  ParseLoop(arr, i + 1, Append(res, ind),
                       MapPut(cmap, ind.indicatorCategory, ind), imap, junk)

\* SummaryCard::parseIndicators
ParseIndicators(data, cmap, imap, junk) ==
    IF is_null(data) THEN [result |-> <<>>, cmap |-> cmap]
    ELSE ParseLoop(IF is_array(data) THEN data.a ELSE <<data>>,
                   1, <<>>, cmap, imap, junk)

\* SummaryCard::setRawData
SetRawData(c, data) == [c EXCEPT !.rawData = data]

\* SummaryCard::appendRawData
AppendRawData(c, data) == [c EXCEPT !.rawData = c.rawData \o data]

\* SummaryCard::parseRawData
ParseRawData(c, junk) ==
    IF c.rawData = <<>> THEN c
    ELSE LET p == ParseJson(c.rawData) IN
         IF p.ok
            THEN LET r == ParseIndicators(p.value, c.categoryToIndicatorMap,
                                          c.indicatorsMap, junk)
                 IN  [c EXCEPT !.rawJsonData            = p.value,
                               !.indicatorVector        = r.result,
                               !.categoryToIndicatorMap = r.cmap]
            ELSE [c EXCEPT !.rawJsonData = JArr(<<>>)]

\* SummaryCard::clear
Clear(c) ==
    [rawData                |-> <<>>,
     rawJsonData            |-> JsonClear(c.rawJsonData),
     indicatorsMap          |-> EmptyMap,
     indicatorVector        |-> <<>>,
     categoryToIndicatorMap |-> EmptyMap,
     schoolName             |-> "",
     year                   |-> ""]

\* SummaryCard::setMetadata
SetMetadata(c, school, yr) == [c EXCEPT !.schoolName = school, !.year = yr]

-----------------------------------------------------------------------------
(***************************************************************************)
(* Token bucket (CaliforniaDashboardAPI::acquireToken).  A rate R is the   *)
(* rational r[1]/r[2] tokens per second.  Time is counted in ticks and the *)
(* bucket in units chosen so that one tick refills r[1] units: one token   *)
(* is r[2] * TicksPerSec units and the capacity R is r[1] * TicksPerSec.   *)
(***************************************************************************)
TicksPerSec == 2
UnlimitedRate == 1000       \* acquireToken returns at once from this rate on

TokenUnit(r)  == r[2] * TicksPerSec
Capacity(r)   == r[1] * TicksPerSec
\* A fast path that starts above 1000 requests per second only.
UnlimitedAbove(r) == r[1] > UnlimitedRate * r[2]

\* max_requests_per_sec_ >= 1000.0
Unlimited(r)  == r[1] >= UnlimitedRate * r[2]

\* A refill that forgets the clamp to the capacity.
RefillUnclamped(r, tok, elapsed) == tok + elapsed * r[1]

\* tokens_ += elapsed * max_requests_per_sec_, clamped to max_requests_per_sec_
Refill(r, tok, elapsed) == Min(tok + elapsed * r[1], Capacity(r))

\* wait_ns of acquireToken, truncated to whole ticks
WaitTicks(r, tok) == (TokenUnit(r) - tok) \div r[1]

-----------------------------------------------------------------------------
(***************************************************************************)
(* CaliforniaDashboardAPI: URL intake                                      *)
(***************************************************************************)
UrlA == <<"https://", "a">>
UrlB == <<"ftp://", "b">>
CandidateUrls == {UrlA, UrlB, <<>>, <<"a">>, <<"HTTP://", "a">>}
UrlLists == {<<>>} \cup {<<u>> : u \in CandidateUrls}
                   \cup {<<UrlA, u>> : u \in CandidateUrls}

\* A filter that only rejects the empty string.
AcceptedUrlNonEmpty(url) == url # <<>>

\* url.rfind(prefix, 0) == 0
StartsWith(url, prefix) == Len(url) >= 1 /\ url[1] = prefix

AcceptedUrl(url) ==
    /\ url # <<>>
    /\ \/ StartsWith(url, "https://")
       \/ StartsWith(url, "http://")
       \/ StartsWith(url, "ftp://")

\* CaliforniaDashboardAPI::loadInURLs
LoadInURLs(urls) ==
    /\ cpc = "idle"
    /\ LET valid == SelectSeq(urls, AcceptedUrl) IN
       /\ Len(urls_) + Len(valid) <= MaxUrls
       /\ urls_' = IF urls = <<>> \/ valid = <<>> THEN urls_ ELSE urls_ \o valid
    /\ UNCHANGED <<pool_size_, max_requests_per_sec_, allSummaryCardsVector,
                   total_, completed_, next_slot_>>
    /\ UNCHANGED <<rateVars, coordVars, workVars, obsVars, cardVars, limVars, unitVars,
                   enrichVars, poolVars, refineVars>>

\* The value loadInURLs returns.
LoadInURLsReturn(urls) ==
    IF urls = <<>> THEN "false"
    ELSE IF SelectSeq(urls, AcceptedUrl) = <<>> THEN "false"
    ELSE "true"

\* A call of loadInURLs, with its argument, the list it found and the
\* value it returned kept for inspection.
LoadCall(urls) ==
    /\ LoadInURLs(urls)
    /\ loadArg' = urls
    /\ loadBefore' = urls_
    /\ loadReturn' = LoadInURLsReturn(urls)

-----------------------------------------------------------------------------
(***************************************************************************)
(* CaliforniaDashboardAPI::runFullURLFetch (the coordinator)               *)
(***************************************************************************)
Workers == 1..MaxPool
Slots   == 0..MaxCards

NoWorkerState ==
    /\ wpc       = [w \in Workers |-> "unborn"]
    /\ wurl      = [w \in Workers |-> <<>>]
    /\ wslot     = [w \in Workers |-> 0]
    /\ attempt   = [w \in Workers |-> 0]
    /\ result    = [w \in Workers |-> "CURLE_OK"]
    /\ ret       = [w \in Workers |-> "CURLE_OK"]
    /\ http_code = [w \in Workers |-> 0]
    /\ decoded   = [w \in Workers |-> FALSE]
    /\ received  = [w \in Workers |-> <<>>]
    /\ slept     = [w \in Workers |-> <<>>]

\* if (urls_.empty()) return false;
RunNoUrls ==
    /\ cpc = "idle"
    /\ urls_ = <<>>
    /\ runResult' = "false"
    /\ setupFailure' = "no_urls"
    /\ UNCHANGED <<apiVars, rateVars, workVars, cardVars, limVars, unitVars, loadVars, enrichVars, poolVars, refineVars>>
    /\ UNCHANGED <<cpc, base_slot, n, queue, handles, resolve_list, spawned>>
    /\ UNCHANGED <<fetchCalls, decoded, received, slept, failedSlots>>

\* The set-up of a run: counters, the resize of the output array, the queue.
RunStart ==
    /\ cpc = "idle"
    /\ urls_ # <<>>
    /\ Len(allSummaryCardsVector) + Len(urls_) <= MaxCards
    /\ total_' = Len(urls_)
    /\ completed_' = 0
    /\ next_slot_' = Len(allSummaryCardsVector)
    /\ base_slot' = Len(allSummaryCardsVector)
    /\ allSummaryCardsVector' =
           allSummaryCardsVector \o [i \in 1..Len(urls_) |-> DefaultCard]
    /\ queue' = [items |-> urls_, done |-> FALSE]
    /\ n' = Min(pool_size_, Len(urls_))
    /\ handles' = [w \in Workers |-> "none"]
    /\ resolve_list' \in {"null", "live"}
    /\ spawned' = 0
    /\ cpc' = IF Min(pool_size_, Len(urls_)) = 0 THEN "signal" ELSE "init"
    /\ runResult' = "running"
    /\ wpc'       = [w \in Workers |-> "unborn"]
    /\ wurl'      = [w \in Workers |-> <<>>]
    /\ wslot'     = [w \in Workers |-> 0]
    /\ attempt'   = [w \in Workers |-> 0]
    /\ result'    = [w \in Workers |-> "CURLE_OK"]
    /\ ret'       = [w \in Workers |-> "CURLE_OK"]
    /\ http_code' = [w \in Workers |-> 0]
    /\ decoded'   = [w \in Workers |-> FALSE]
    /\ received'  = [w \in Workers |-> <<>>]
    /\ slept'     = [w \in Workers |-> <<>>]
    /\ fetchCalls' = [s \in Slots |-> 0]
    /\ failedSlots' = {}
    /\ setupFailure' = "none"
    /\ UNCHANGED <<pool_size_, max_requests_per_sec_, urls_>>
    /\ UNCHANGED <<rateVars, cardVars, limVars, unitVars, loadVars, enrichVars>>

\* Index of the handle the initialisation loop is at.
HandleIndex == 1 + Cardinality({w \in Workers : handles[w] = "live"})

\* One turn of the handle loop with curl_easy_init succeeding.
InitHandle ==
    /\ cpc = "init"
    /\ handles' = [handles EXCEPT ![HandleIndex] = "live"]
    /\ UNCHANGED resolve_list
    /\ cpc' = IF HandleIndex = n THEN "spawn" ELSE "init"
    /\ UNCHANGED <<apiVars, rateVars, workVars, obsVars, cardVars, limVars, unitVars, loadVars, enrichVars, poolVars, refineVars>>
    /\ UNCHANGED <<base_slot, n, queue, spawned, runResult>>

\* curl_easy_init returns null: free the earlier handles and return false.
InitHandleFails ==
    /\ cpc = "init"
    /\ handles' = [w \in Workers |->
                      IF handles[w] = "live" THEN "freed" ELSE handles[w]]
    /\ UNCHANGED resolve_list
    /\ runResult' = "false"
    /\ setupFailure' = "curl_easy_init"
    /\ cpc' = "idle"
    /\ UNCHANGED <<apiVars, rateVars, workVars, cardVars, limVars, unitVars, loadVars, enrichVars, poolVars, refineVars>>
    /\ UNCHANGED <<base_slot, n, queue, spawned>>
    /\ UNCHANGED <<fetchCalls, decoded, received, slept, failedSlots>>

\* A spawn loop that runs to pool_size_ whatever the number of URLs.
SpawnToPoolSize ==
    /\ cpc = "spawn"
    /\ wpc' = [wpc EXCEPT ![spawned + 1] = "pop"]
    /\ spawned' = spawned + 1
    /\ cpc' = IF spawned + 1 = pool_size_ THEN "signal" ELSE "spawn"
    /\ UNCHANGED <<apiVars, rateVars, obsVars, cardVars, limVars, unitVars, loadVars, enrichVars, poolVars, refineVars>>
    /\ UNCHANGED <<wurl, wslot, attempt, result, http_code, ret>>
    /\ UNCHANGED <<base_slot, n, queue, handles, resolve_list, runResult>>

\* One turn of the spawn loop with pthread_create succeeding.
SpawnWorker ==
    /\ cpc = "spawn"
    /\ wpc' = [wpc EXCEPT ![spawned + 1] = "pop"]
    /\ spawned' = spawned + 1
    /\ cpc' = IF spawned + 1 = n THEN "signal" ELSE "spawn"
    /\ UNCHANGED <<apiVars, rateVars, obsVars, cardVars, limVars, unitVars, loadVars, enrichVars, poolVars, refineVars>>
    /\ UNCHANGED <<wurl, wslot, attempt, result, http_code, ret>>
    /\ UNCHANGED <<base_slot, n, queue, handles, resolve_list, runResult>>

\* pthread_create fails: close the queue and wake the workers.
SpawnWorkerFails ==
    /\ cpc = "spawn"
    /\ queue' = [queue EXCEPT !.done = TRUE]
    /\ setupFailure' = "pthread_create"
    /\ cpc' = "joinfail"
    /\ UNCHANGED <<apiVars, rateVars, workVars, cardVars, limVars, unitVars, loadVars, enrichVars, poolVars, refineVars>>
    /\ UNCHANGED <<base_slot, n, handles, resolve_list, spawned, runResult>>
    /\ UNCHANGED <<fetchCalls, decoded, received, slept, failedSlots>>

\* queue.done = true; queue.cv.notify_all();
SignalDone ==
    /\ cpc = "signal"
    /\ queue' = [queue EXCEPT !.done = TRUE]
    /\ cpc' = "join"
    /\ UNCHANGED <<apiVars, rateVars, workVars, obsVars, cardVars, limVars, unitVars, loadVars, enrichVars, poolVars, refineVars>>
    /\ UNCHANGED <<base_slot, n, handles, resolve_list, spawned, runResult>>

AllJoined == \A w \in 1..spawned : wpc[w] = "exited"

FreeHandles == [w \in Workers |-> IF w <= n THEN "freed" ELSE handles[w]]

\* if (resolve_list) curl_slist_free_all(resolve_list);
FreeResolveList == IF resolve_list = "live" THEN "freed" ELSE resolve_list

\* A coordinator that reports the failures of its fetches in its result.
JoinAndReturnStrict ==
    /\ cpc = "join"
    /\ AllJoined
    /\ handles' = FreeHandles
    /\ resolve_list' = FreeResolveList
    /\ runResult' = IF failedSlots = {} THEN "true" ELSE "false"
    /\ cpc' = "idle"
    /\ UNCHANGED <<apiVars, rateVars, workVars, obsVars, cardVars, limVars, unitVars, loadVars, enrichVars, poolVars, refineVars>>
    /\ UNCHANGED <<base_slot, n, queue, spawned>>

\* The joins, the clean-up of the handles and `return true`.
JoinAndReturn ==
    /\ cpc = "join"
    /\ AllJoined
    /\ handles' = FreeHandles
    /\ resolve_list' = FreeResolveList
    /\ runResult' = "true"
    /\ cpc' = "idle"
    /\ UNCHANGED <<apiVars, rateVars, workVars, obsVars, cardVars, limVars, unitVars, loadVars, enrichVars, poolVars, refineVars>>
    /\ UNCHANGED <<base_slot, n, queue, spawned>>

\* A failure path that returns without joining the workers it created.
ReturnWithoutJoining ==
    /\ cpc = "joinfail"
    /\ handles' = FreeHandles
    /\ UNCHANGED resolve_list
    /\ runResult' = "false"
    /\ cpc' = "idle"
    /\ UNCHANGED <<apiVars, rateVars, workVars, obsVars, cardVars, limVars, unitVars, loadVars, enrichVars, poolVars, refineVars>>
    /\ UNCHANGED <<base_slot, n, queue, spawned>>

\* The joins and the clean-up after a failed pthread_create; `return false`.
JoinAfterSpawnFailure ==
    /\ cpc = "joinfail"
    /\ AllJoined
    /\ handles' = FreeHandles
    /\ UNCHANGED resolve_list
    /\ runResult' = "false"
    /\ cpc' = "idle"
    /\ UNCHANGED <<apiVars, rateVars, workVars, obsVars, cardVars, limVars, unitVars, loadVars, enrichVars, poolVars, refineVars>>
    /\ UNCHANGED <<base_slot, n, queue, spawned>>

-----------------------------------------------------------------------------
(***************************************************************************)
(* The transport (libcurl) as the workers see it                           *)
(***************************************************************************)
MAX_RETRIES == 3

\* A retry rule that also retries a failed TLS handshake.
isRetryableOrSsl(code) ==
    code \in {"CURLE_OPERATION_TIMEDOUT", "CURLE_COULDNT_RESOLVE_HOST",
              "CURLE_COULDNT_CONNECT", "CURLE_RECV_ERROR",
              "CURLE_SEND_ERROR", "CURLE_GOT_NOTHING",
              "CURLE_SSL_CONNECT_ERROR"}

\* static bool isRetryable(CURLcode)
isRetryable(code) ==
    code \in {"CURLE_OPERATION_TIMEDOUT", "CURLE_COULDNT_RESOLVE_HOST",
              "CURLE_COULDNT_CONNECT", "CURLE_RECV_ERROR",
              "CURLE_SEND_ERROR", "CURLE_GOT_NOTHING"}

\* What curl_easy_perform may return, what the server may send with it, and
\* the response code the handle then reports.
TransportErrors ==
    {"CURLE_OPERATION_TIMEDOUT", "CURLE_GOT_NOTHING", "CURLE_SSL_CONNECT_ERROR"}

ServerBodies ==
    {<<>>, <<"WS", "LT">>, <<"LB", "E1">>, <<"WS", "LB", "E1", "E7", "RB">>}
PartialBodies == {<<>>, <<"LB">>}
HttpCodes == {199, 200, 299, 300}

PerformOutcomes ==
    [code : {"CURLE_OK"}, data : ServerBodies, http : HttpCodes]
    \cup [code : TransportErrors, data : PartialBodies, http : {0}]

\* A body test that lets a markup page through.
StartsLikeJsonOrMarkup(raw) ==
    LET tk == SelectSeq(raw, NotWS) IN
    tk # <<>> /\ FirstByte(tk[1]) \in {"{", "[", "<"}

\* raw.find_first_not_of(" \t\r\n") and the test on the byte found
StartsLikeJson(raw) ==
    LET tk == SelectSeq(raw, NotWS) IN
    tk # <<>> /\ FirstByte(tk[1]) \in {"{", "["}

-----------------------------------------------------------------------------
(***************************************************************************)
(* CaliforniaDashboardAPI::poolWorker and fetchSummaryCard                 *)
(***************************************************************************)
SlotCard(w) == allSummaryCardsVector[wslot[w] + 1]

\* The queue section of the loop: wait for an item or for done, then pop
\* the front URL or leave the loop.
WorkerPop(w) ==
    /\ wpc[w] = "pop"
    /\ queue.items # <<>> \/ queue.done
    /\ IF queue.items = <<>>
          THEN /\ wpc' = [wpc EXCEPT ![w] = "exited"]
               /\ UNCHANGED <<queue, wurl>>
          ELSE /\ wurl' = [wurl EXCEPT ![w] = Head(queue.items)]
               /\ queue' = [queue EXCEPT !.items = Tail(queue.items)]
               /\ wpc' = [wpc EXCEPT ![w] = "acquire"]
    /\ UNCHANGED <<apiVars, rateVars, obsVars, cardVars, limVars, unitVars, loadVars, enrichVars, poolVars, refineVars>>
    /\ UNCHANGED <<wslot, attempt, result, http_code, ret>>
    /\ UNCHANGED <<cpc, base_slot, n, handles, resolve_list, spawned, runResult>>

\* A call of acquireToken that returns, as the pool sees it: the bucket was
\* refilled for the time that passed and one token was taken.
WorkerAcquire(w) ==
    /\ wpc[w] = "acquire"
    /\ IF Unlimited(max_requests_per_sec_)
          THEN UNCHANGED tokens_
          ELSE \E elapsed \in 0..TicksPerSec :
                  /\ Refill(max_requests_per_sec_, tokens_, elapsed)
                         >= TokenUnit(max_requests_per_sec_)
                  /\ tokens_' = Refill(max_requests_per_sec_, tokens_, elapsed)
                                    - TokenUnit(max_requests_per_sec_)
    /\ wpc' = [wpc EXCEPT ![w] = "claim"]
    /\ UNCHANGED <<apiVars, sinceRefill, rate_mutex_, coordVars, obsVars,
                   cardVars, limVars, unitVars, loadVars, enrichVars, poolVars, refineVars>>
    /\ UNCHANGED <<wurl, wslot, attempt, result, http_code, ret>>

\* A slot counter that is read but not advanced.
FetchNoAdd(counter) == [old |-> counter, new |-> counter]

\* A slot counter whose claims all yield the first index of the array.
FetchAddFromZero(counter) == [old |-> 0, new |-> counter + 1]

\* next_slot_.fetch_add(1)
FetchAdd(counter) == [old |-> counter, new |-> counter + 1]

\* The place in the queue of the URL worker w popped last.
PopIndex(w) ==
    CHOOSE i \in 1..Len(popLog) :
        /\ popLog[i].worker = w
        /\ \A j \in (i + 1)..Len(popLog) : popLog[j].worker # w

\* A slot claim that follows the place of the URL in the list.
WorkerClaimByUrlOrder(w) ==
    /\ wpc[w] = "claim"
    /\ wslot' = [wslot EXCEPT ![w] = base_slot + PopIndex(w) - 1]
    /\ next_slot_' = FetchAdd(next_slot_).new
    /\ fetchCalls' = [fetchCalls EXCEPT ![base_slot + PopIndex(w) - 1] = @ + 1]
    /\ result' = [result EXCEPT ![w] = "CURLE_OK"]
    /\ attempt' = [attempt EXCEPT ![w] = 0]
    /\ wpc' = [wpc EXCEPT ![w] = "fetch"]
    /\ UNCHANGED <<pool_size_, max_requests_per_sec_, urls_,
                   allSummaryCardsVector, total_, completed_>>
    /\ UNCHANGED <<rateVars, coordVars, cardVars, limVars, unitVars, loadVars, enrichVars, poolVars, refineVars>>
    /\ UNCHANGED <<wurl, http_code, ret, decoded, received, slept, failedSlots,
                   setupFailure>>

\* The slot claim and the entry into fetchSummaryCard up to its loop.
WorkerClaim(w) ==
    /\ wpc[w] = "claim"
    /\ wslot' = [wslot EXCEPT ![w] = FetchAdd(next_slot_).old]
    /\ next_slot_' = FetchAdd(next_slot_).new
    /\ fetchCalls' = [fetchCalls EXCEPT ![FetchAdd(next_slot_).old] = @ + 1]
    /\ result' = [result EXCEPT ![w] = "CURLE_OK"]
    /\ attempt' = [attempt EXCEPT ![w] = 0]
    /\ wpc' = [wpc EXCEPT ![w] = "fetch"]
    /\ UNCHANGED <<pool_size_, max_requests_per_sec_, urls_,
                   allSummaryCardsVector, total_, completed_>>
    /\ UNCHANGED <<rateVars, coordVars, cardVars, limVars, unitVars, loadVars, enrichVars, poolVars, refineVars>>
    /\ UNCHANGED <<wurl, http_code, ret, decoded, received, slept, failedSlots,
                   setupFailure>>

BASE_DELAY_MS == 250

\* A turn that starts without clearing the card.
TurnHeadNoClear(c, k) == c

\* The head of a turn of the loop when attempt > 0: card.clear() ...
TurnHead(c, k) == IF k > 0 THEN Clear(c) ELSE c

\* ... then delay_ms = BASE_DELAY_MS * (1L << (attempt - 1))
Delay(k) == BASE_DELAY_MS * 2^(k - 1)

\* ... and nanosleep for delay_ms, recorded after the sleeps so far.
TurnSleep(sleeps, k) == IF k > 0 THEN Append(sleeps, Delay(k)) ELSE sleeps

\* Whether the loop of fetchSummaryCard takes another turn after a perform
\* that returned code in turn k.
RetryAfter(code, k) == code # "CURLE_OK" /\ isRetryable(code) /\ k < MAX_RETRIES

\* A verdict that decodes the body of a response whatever its status.
FetchVerdictAnyStatus(code, http, raw) ==
    IF code # "CURLE_OK" THEN [ret |-> code, decode |-> FALSE]
    ELSE IF http < 200 \/ http >= 300
        THEN [ret |-> "CURLE_HTTP_RETURNED_ERROR", decode |-> TRUE]
    ELSE IF raw = <<>> THEN [ret |-> "CURLE_GOT_NOTHING", decode |-> FALSE]
    ELSE IF ~StartsLikeJson(raw)
        THEN [ret |-> "CURLE_GOT_NOTHING", decode |-> FALSE]
    ELSE [ret |-> code, decode |-> TRUE]

\* The value fetchSummaryCard returns after its loop, and whether it decodes.
FetchVerdict(code, http, raw) ==
    IF code # "CURLE_OK" THEN [ret |-> code, decode |-> FALSE]
    ELSE IF http < 200 \/ http >= 300
        THEN [ret |-> "CURLE_HTTP_RETURNED_ERROR", decode |-> FALSE]
    ELSE IF raw = <<>> THEN [ret |-> "CURLE_GOT_NOTHING", decode |-> FALSE]
    ELSE IF ~StartsLikeJson(raw)
        THEN [ret |-> "CURLE_GOT_NOTHING", decode |-> FALSE]
    ELSE [ret |-> code, decode |-> TRUE]

\* A turn of the loop after which the loop goes on: the perform failed with
\* a retryable error and turns remain.  The body bytes of the failed attempt
\* arrived through write_callback.
FetchTurnRetry(w) ==
    /\ wpc[w] = "fetch"
    /\ \E out \in PerformOutcomes :
          /\ RetryAfter(out.code, attempt[w])
          /\ allSummaryCardsVector' =
                 [allSummaryCardsVector EXCEPT ![wslot[w] + 1] =
                     AppendRawData(TurnHead(@, attempt[w]), out.data)]
          /\ result' = [result EXCEPT ![w] = out.code]
    /\ slept' = [slept EXCEPT ![w] = TurnSleep(@, attempt[w])]
    /\ attempt' = [attempt EXCEPT ![w] = @ + 1]
    /\ UNCHANGED <<pool_size_, max_requests_per_sec_, urls_,
                   total_, completed_, next_slot_>>
    /\ UNCHANGED <<rateVars, coordVars, cardVars, limVars, unitVars, loadVars, enrichVars, poolVars, refineVars>>
    /\ UNCHANGED <<wpc, wurl, wslot, http_code, ret>>
    /\ UNCHANGED <<fetchCalls, decoded, received, failedSlots, setupFailure>>

\* The last turn of the loop and the rest of fetchSummaryCard: the status
\* and body checks, parseRawData, the return.
FetchTurnReturn(w) ==
    /\ wpc[w] = "fetch"
    /\ \E out \in PerformOutcomes :
          LET c == AppendRawData(TurnHead(SlotCard(w), attempt[w]), out.data)
              v == FetchVerdict(out.code, out.http, c.rawData)
          IN  /\ ~RetryAfter(out.code, attempt[w])
              /\ IF v.decode
                    THEN \E junk \in Indeterminate :
                            allSummaryCardsVector' =
                                [allSummaryCardsVector EXCEPT ![wslot[w] + 1] =
                                    ParseRawData(c, junk)]
                    ELSE allSummaryCardsVector' =
                             [allSummaryCardsVector EXCEPT ![wslot[w] + 1] = c]
              /\ ret' = [ret EXCEPT ![w] = v.ret]
              /\ result' = [result EXCEPT ![w] = out.code]
              /\ http_code' = [http_code EXCEPT ![w] = out.http]
              /\ decoded' = [decoded EXCEPT ![w] = v.decode]
              /\ received' = [received EXCEPT ![w] = out.data]
              /\ slept' = [slept EXCEPT ![w] = TurnSleep(@, attempt[w])]
              /\ failedSlots' =
                     IF v.ret # "CURLE_OK" \/ ~ParseJson(c.rawData).ok
                        THEN failedSlots \cup {wslot[w]}
                        ELSE failedSlots
    /\ wpc' = [wpc EXCEPT ![w] = "progress"]
    /\ UNCHANGED <<pool_size_, max_requests_per_sec_, urls_,
                   total_, completed_, next_slot_>>
    /\ UNCHANGED <<rateVars, coordVars, cardVars, limVars, unitVars, loadVars, enrichVars, poolVars>>
    /\ UNCHANGED <<wurl, wslot, attempt, fetchCalls, setupFailure>>

\* ++completed_ and the progress line; the turn of the worker's loop ends
\* and its locals go out of scope.
WorkerProgress(w) ==
    /\ wpc[w] = "progress"
    /\ completed_' = completed_ + 1
    /\ wpc' = [wpc EXCEPT ![w] = "pop"]
    /\ wurl'      = [wurl EXCEPT ![w] = <<>>]
    /\ wslot'     = [wslot EXCEPT ![w] = 0]
    /\ ret'       = [ret EXCEPT ![w] = "CURLE_OK"]
    /\ attempt'   = [attempt EXCEPT ![w] = 0]
    /\ result'    = [result EXCEPT ![w] = "CURLE_OK"]
    /\ http_code' = [http_code EXCEPT ![w] = 0]
    /\ decoded'   = [decoded EXCEPT ![w] = FALSE]
    /\ received'  = [received EXCEPT ![w] = <<>>]
    /\ slept'     = [slept EXCEPT ![w] = <<>>]
    /\ UNCHANGED <<pool_size_, max_requests_per_sec_, urls_,
                   allSummaryCardsVector, total_, next_slot_>>
    /\ UNCHANGED <<rateVars, coordVars, cardVars, limVars, unitVars, loadVars, enrichVars, poolVars, refineVars>>
    /\ UNCHANGED <<fetchCalls, failedSlots, setupFailure>>

-----------------------------------------------------------------------------
(***************************************************************************)
(* The fetch engine                                                        *)
(***************************************************************************)
EngineRates == {<<1, 1>>, <<1000, 1>>}

CardIdle    == card = DefaultCard /\ cardOp = "construct"
UnitIdle == entryArg = JNull /\ parsedInd = <<>>
LoadIdle == loadArg = <<>> /\ loadBefore = <<>> /\ loadReturn = "none"
EnrichIdle ==
    /\ fetched = <<>>
    /\ ecards = <<>>
    /\ urlMetadata = <<>>
    /\ lookup = <<>>
    /\ nThreads = 1
    /\ epc = "idle"
    /\ tcur = 0
    /\ espawned = 0
    /\ jcur = 0
    /\ tids = <<>>
    /\ ethread = <<>>
    /\ handed = <<>>

PoolIdle ==
    /\ qmtx = 0
    /\ progress_mutex_ = 0
    /\ wdone = [w \in Workers |-> 0]
    /\ progressLog = <<>>
    /\ slotUrl = [s \in Slots |-> <<>>]
    /\ popLog = <<>>

GuardedIdle ==
    /\ guardedVector = <<>>
    /\ gpc = "idle"
    /\ gthread = [i \in 1..MaxUrls |->
                     [st |-> "unborn", card |-> DefaultCard, resp |-> <<>>]]
    /\ mutex_ = 0
    /\ gResult = "none"
    /\ finalResponse = {}

LimiterIdle ==
    /\ lpc = [c \in 1..NumCallers |-> "idle"]
    /\ sleepLeft = [c \in 1..NumCallers |-> 0]
    /\ calls = [c \in 1..NumCallers |-> 0]
    /\ ages = [a \in 0..TicksPerSec |-> 0]

\* The object after its constructor.
Constructed(rates) ==
    /\ pool_size_ \in 0..MaxPool
    /\ max_requests_per_sec_ \in rates
    /\ urls_ = <<>>
    /\ allSummaryCardsVector = <<>>
    /\ total_ = 0
    /\ completed_ = 0
    /\ next_slot_ = 0
    /\ tokens_ = Capacity(max_requests_per_sec_)
    /\ sinceRefill = 0
    /\ rate_mutex_ = 0
    /\ cpc = "idle"
    /\ base_slot = 0
    /\ n = 0
    /\ queue = [items |-> <<>>, done |-> FALSE]
    /\ handles = [w \in Workers |-> "none"]
    /\ resolve_list = "null"
    /\ spawned = 0
    /\ runResult = "none"
    /\ NoWorkerState
    /\ fetchCalls = [s \in Slots |-> 0]
    /\ failedSlots = {}
    /\ setupFailure = "none"

Init == Constructed(EngineRates) /\ CardIdle /\ LimiterIdle /\ UnitIdle /\ LoadIdle /\ EnrichIdle /\ PoolIdle /\ GuardedIdle

\* Calls of loadInURLs on a constructed object (IntakeSpec).
UrlC == <<"http://", "c">>
IntakeUrls ==
    CandidateUrls \cup {UrlC, <<"a", "http://">>, <<"file://", "a">>, <<"ftp://">>}
IntakeLists ==
    {<<>>} \cup {<<u>> : u \in IntakeUrls}
           \cup {<<u, v>> : u, v \in IntakeUrls}
           \cup {<<<<"a">>, UrlC, <<>>, UrlB>>}

IntakeNext == \E urls \in IntakeLists : LoadCall(urls)

IntakeSpec == Init /\ [][IntakeNext]_vars

Next ==
    \/ \E urls \in UrlLists : LoadInURLs(urls) /\ UNCHANGED loadVars
    \/ RunNoUrls
    \/ RunStart /\ UNCHANGED <<poolVars, refineVars>>
    \/ InitHandle
    \/ InitHandleFails
    \/ SpawnWorker
    \/ SpawnWorkerFails
    \/ SignalDone
    \/ JoinAndReturn
    \/ JoinAfterSpawnFailure
    \/ \E w \in Workers : WorkerPop(w)
    \/ \E w \in Workers : WorkerAcquire(w)
    \/ \E w \in Workers : WorkerClaim(w)
    \/ \E w \in Workers : FetchTurnRetry(w)
    \/ \E w \in Workers : FetchTurnReturn(w) /\ UNCHANGED refineVars
    \/ \E w \in Workers : WorkerProgress(w)

Spec == Init /\ [][Next]_vars


-----------------------------------------------------------------------------
(***************************************************************************)
(* One SummaryCard driven through its public operations                    *)
(***************************************************************************)
\* SummaryCard::SummaryCard(const std::string&): rawJsonData starts as the
\* null value, parseRawData runs, then parseIndicators runs once more.
StringCard(jsonString, junk) ==
    LET c0 == [DefaultCard EXCEPT !.rawData = jsonString, !.rawJsonData = JNull]
        c1 == ParseRawData(c0, junk)
        r  == ParseIndicators(c1.rawJsonData, c1.categoryToIndicatorMap,
                              c1.indicatorsMap, junk)
    IN  [c1 EXCEPT !.indicatorVector = r.result,
                   !.categoryToIndicatorMap = r.cmap]

\* Texts handed to a card as a whole: by setRawData, by the constructor, or
\* as the content of a file.
CardTexts ==
    {<<>>, <<"LB", "E1", "RB">>, <<"LB", "E7", "E7b", "RB">>, <<"E99">>,
     <<"LB", "N5", "E7", "NUL", "E1", "RB">>, <<"N5">>,
     <<"LB", "E1">>, <<"LT">>, <<"WS">>}
CardChunks == {<<"LB">>, <<"E1">>, <<"RB">>}

CardSetRawData(data) ==
    /\ card' = SetRawData(card, data)
    /\ cardOp' = "setRawData"

CardAppendRawData(data) ==
    /\ Len(card.rawData) + Len(data) <= MaxRawLen
    /\ card' = AppendRawData(card, data)
    /\ cardOp' = "appendRawData"

CardParseRawData ==
    /\ \E junk \in Indeterminate : card' = ParseRawData(card, junk)
    /\ cardOp' = "parseRawData"

CardClear ==
    /\ card' = Clear(card)
    /\ cardOp' = "clear"

CardSetMetadata ==
    /\ \E school \in {"S"}, yr \in {"2024"} : card' = SetMetadata(card, school, yr)
    /\ cardOp' = "setMetadata"

\* SummaryCard::loadFromFile on a file that cannot be opened.
CardLoadMissingFile ==
    /\ card' = card
    /\ cardOp' = "loadFromFile:false"

\* SummaryCard::loadFromFile on a file holding content.
LoadFromFile(c, content, junk) == ParseRawData(SetRawData(c, content), junk)

CardLoadFromFile(content) ==
    /\ \E junk \in Indeterminate : card' = LoadFromFile(card, content, junk)
    /\ cardOp' = "loadFromFile:true"

\* The engine is not used while the card is exercised.
EngineAtRest == Constructed({<<UnlimitedRate, 1>>}) /\ pool_size_ = 1

CardInit ==
    /\ EngineAtRest
    /\ LimiterIdle
    /\ UnitIdle
    /\ LoadIdle /\ EnrichIdle /\ PoolIdle /\ GuardedIdle
    /\ cardOp = "construct"
    /\ \/ card = DefaultCard
       \/ \E t \in CardTexts, junk \in Indeterminate : card = StringCard(t, junk)

CardNext ==
    /\ \/ \E data \in CardTexts : CardSetRawData(data)
       \/ \E data \in CardChunks : CardAppendRawData(data)
       \/ CardParseRawData
       \/ CardClear
       \/ CardSetMetadata
       \/ CardLoadMissingFile
       \/ \E content \in CardTexts : CardLoadFromFile(content)
    /\ UNCHANGED <<apiVars, rateVars, coordVars, workVars, obsVars, limVars, unitVars, loadVars, enrichVars, poolVars, refineVars>>

CardSpec == CardInit /\ [][CardNext]_vars

-----------------------------------------------------------------------------
(***************************************************************************)
(* acquireToken called by concurrent threads, with the monotonic clock     *)
(***************************************************************************)
Callers == 1..NumCallers
LimiterRates == {<<1, 2>>, <<1, 1>>, <<2, 1>>, <<4, 1>>, <<UnlimitedRate, 1>>}

RECURSIVE SumAges(_, _)
SumAges(f, k) == IF k < 0 THEN 0 ELSE f[k] + SumAges(f, k - 1)

\* A thread calls acquireToken.
LimCall(c) ==
    /\ lpc[c] = "idle"
    /\ calls[c] < MaxCalls
    /\ calls' = [calls EXCEPT ![c] = @ + 1]
    /\ lpc' = [lpc EXCEPT ![c] = "entry"]
    /\ UNCHANGED <<tokens_, sinceRefill, rate_mutex_, sleepLeft, ages>>

\* if (max_requests_per_sec_ >= 1000.0) return;
LimFastPath(c) ==
    /\ lpc[c] = "entry"
    /\ Unlimited(max_requests_per_sec_)
    /\ lpc' = [lpc EXCEPT ![c] = "idle"]
    /\ UNCHANGED <<tokens_, sinceRefill, rate_mutex_, sleepLeft, calls, ages>>

\* std::unique_lock lk(rate_mutex_), and lk.lock() after the sleep.
LimLock(c) ==
    /\ \/ lpc[c] = "entry" /\ ~Unlimited(max_requests_per_sec_)
       \/ lpc[c] = "relock"
    /\ rate_mutex_ = 0
    /\ rate_mutex_' = c
    /\ lpc' = [lpc EXCEPT ![c] = "loop"]
    /\ UNCHANGED <<tokens_, sinceRefill, sleepLeft, calls, ages>>

\* The clock read and the refill at the top of the loop.
LimRefill(c) ==
    /\ lpc[c] = "loop"
    /\ tokens_' = Refill(max_requests_per_sec_, tokens_, sinceRefill)
    /\ sinceRefill' = 0
    /\ lpc' = [lpc EXCEPT ![c] = "check"]
    /\ UNCHANGED <<rate_mutex_, sleepLeft, calls, ages>>

\* if (tokens_ >= 1.0) { tokens_ -= 1.0; return; }
LimTake(c) ==
    /\ lpc[c] = "check"
    /\ tokens_ >= TokenUnit(max_requests_per_sec_)
    /\ tokens_' = tokens_ - TokenUnit(max_requests_per_sec_)
    /\ rate_mutex_' = 0
    /\ ages' = [ages EXCEPT ![0] = @ + 1]
    /\ lpc' = [lpc EXCEPT ![c] = "idle"]
    /\ UNCHANGED <<sinceRefill, sleepLeft, calls>>

\* A sleep taken with the lock still held.
LimSleepHoldsLock(c) ==
    /\ lpc[c] = "check"
    /\ tokens_ < TokenUnit(max_requests_per_sec_)
    /\ sleepLeft' = [sleepLeft EXCEPT ![c] = WaitTicks(max_requests_per_sec_, tokens_)]
    /\ lpc' = [lpc EXCEPT ![c] = "sleep"]
    /\ UNCHANGED <<tokens_, sinceRefill, rate_mutex_, calls, ages>>

\* The wait is computed, the lock released and nanosleep entered.
LimSleep(c) ==
    /\ lpc[c] = "check"
    /\ tokens_ < TokenUnit(max_requests_per_sec_)
    /\ sleepLeft' = [sleepLeft EXCEPT ![c] = WaitTicks(max_requests_per_sec_, tokens_)]
    /\ rate_mutex_' = 0
    /\ lpc' = [lpc EXCEPT ![c] = "sleep"]
    /\ UNCHANGED <<tokens_, sinceRefill, calls, ages>>

\* nanosleep returns once the requested time has passed.
LimWake(c) ==
    /\ lpc[c] = "sleep"
    /\ sleepLeft[c] = 0
    /\ lpc' = [lpc EXCEPT ![c] = "relock"]
    /\ UNCHANGED <<tokens_, sinceRefill, rate_mutex_, sleepLeft, calls, ages>>

\* The monotonic clock advances by one tick.  A gap of a second or more
\* since last_refill_ refills the bucket to its capacity whatever its length.
Tick ==
    /\ sinceRefill' = Min(sinceRefill + 1, TicksPerSec)
    /\ sleepLeft' = [c \in Callers |-> IF sleepLeft[c] > 0 THEN sleepLeft[c] - 1 ELSE 0]
    /\ ages' = [a \in 0..TicksPerSec |-> IF a = 0 THEN 0 ELSE ages[a - 1]]
    /\ UNCHANGED <<tokens_, rate_mutex_, lpc, calls>>

LimStep(c) ==
    LimFastPath(c) \/ LimRefill(c) \/ LimTake(c) \/ LimSleep(c) \/ LimWake(c)

LimiterInit ==
    /\ Constructed(LimiterRates)
    /\ pool_size_ = 1
    /\ CardIdle
    /\ LimiterIdle
    /\ UnitIdle
    /\ LoadIdle /\ EnrichIdle /\ PoolIdle /\ GuardedIdle

LimiterNext ==
    /\ \/ \E c \in Callers : LimCall(c)
       \/ \E c \in Callers : LimFastPath(c)
       \/ \E c \in Callers : LimLock(c)
       \/ \E c \in Callers : LimRefill(c)
       \/ \E c \in Callers : LimTake(c)
       \/ \E c \in Callers : LimSleep(c)
       \/ \E c \in Callers : LimWake(c)
       \/ Tick
    /\ UNCHANGED <<apiVars, coordVars, workVars, obsVars, cardVars, unitVars, loadVars, enrichVars, poolVars, refineVars>>

LimiterSpec == LimiterInit /\ [][LimiterNext]_vars

\* Fair scheduling of the threads and an advancing clock.
LimiterFair ==
    /\ LimiterSpec
    /\ WF_vars(Tick /\ UNCHANGED <<apiVars, coordVars, workVars, obsVars, cardVars, unitVars, loadVars, enrichVars, poolVars, refineVars>>)
    /\ \A c \in Callers :
          /\ WF_vars(LimStep(c)
                     /\ UNCHANGED <<apiVars, coordVars, workVars, obsVars, cardVars, unitVars, loadVars, enrichVars, poolVars, refineVars>>)
          /\ SF_vars(LimLock(c)
                     /\ UNCHANGED <<apiVars, coordVars, workVars, obsVars, cardVars, unitVars, loadVars, enrichVars, poolVars, refineVars>>)


-----------------------------------------------------------------------------
(***************************************************************************)
(* Properties                                                              *)
(***************************************************************************)
RunSlots == base_slot..(base_slot + total_ - 1)
Returned(value) == cpc = "idle" /\ runResult = value
InFetch(w) == wpc[w] \in {"fetch", "progress"}
FetchReturns(w) == wpc[w] = "fetch" /\ wpc'[w] = "progress"
FetchRetries(w) == attempt'[w] = attempt[w] + 1

\* C1: when runFullURLFetch returns true, the output array has length
\* base + n and every slot of [base, base + n) has been the target of
\* exactly one fetchSummaryCard call, for every pool size.
C1_ReturnedTrueEverySlotFetchedOnce ==
    Returned("true") =>
        /\ Len(allSummaryCardsVector) = base_slot + total_
        /\ \A s \in RunSlots : fetchCalls[s] = 1

\* C2: runFullURLFetch returns false only when no URLs are loaded or the
\* set-up of the workers fails (a handle or a thread cannot be created);
\* a run whose workers were set up returns true whatever fetches failed.
C2_FalseOnlyWithoutUrlsOrWorkers ==
    /\ [](runResult = "false"
            => setupFailure \in {"no_urls", "curl_easy_init", "pthread_create"})
    /\ []((cpc = "idle" /\ runResult \in {"true", "false"} /\ setupFailure = "none")
            => runResult = "true")
    /\ [][(runResult # "false" /\ runResult' = "false")
            => (urls_ = <<>> \/ cpc \in {"init", "joinfail"})]_vars

C2_TrueWithEveryFetchFailed ==
    /\ Returned("true")
    /\ total_ = MaxUrls
    /\ failedSlots = RunSlots

\* C3: the slots obtained from next_slot_.fetch_add during one run are
\* pairwise distinct and lie in [base, base + total): no slot is the target
\* of two fetches and no two workers hold the same slot.
C3_SlotsDistinctAndInRange ==
    /\ \A s \in Slots : fetchCalls[s] <= 1
    /\ \A s \in Slots : fetchCalls[s] > 0 => s \in RunSlots
    /\ \A w \in Workers : InFetch(w) => wslot[w] \in RunSlots
    /\ \A w1, w2 \in Workers :
          (w1 # w2 /\ InFetch(w1) /\ InFetch(w2)) => wslot[w1] # wslot[w2]

C3_TwoWorkersFetching ==
    /\ wpc[1] = "fetch" /\ wpc[2] = "fetch"
    /\ attempt[1] > 0 /\ attempt[2] > 0
    /\ wslot[1] # wslot[2]

\* C4: a failed fetch never aborts its peers: the step in which a fetch
\* fails leaves the queue, the coordinator, the other workers and the other
\* cards as they are, a run with failed fetches still fetches every URL,
\* and the slot of a failed fetch holds a card with no indicators.
C4_FailureFrame ==
    \A w \in Workers :
        (FetchReturns(w) /\ wslot[w] \in failedSlots') =>
            /\ queue' = queue
            /\ cpc' = cpc
            /\ \A v \in Workers \ {w} : wpc'[v] = wpc[v]
            /\ \A s \in Slots :
                  (s # wslot[w] /\ s < Len(allSummaryCardsVector))
                      => allSummaryCardsVector'[s + 1] = allSummaryCardsVector[s + 1]

C4_FailedFetchSparesPeers ==
    /\ [](\A s \in failedSlots :
              allSummaryCardsVector[s + 1].indicatorVector = <<>>)
    /\ []((Returned("true") /\ failedSlots # {})
              => /\ \A s \in RunSlots : fetchCalls[s] = 1
                 /\ completed_ = total_)
    /\ [][C4_FailureFrame]_vars

C4_OneFailedOneDecoded ==
    /\ Returned("true")
    /\ total_ = MaxUrls
    /\ failedSlots = {base_slot}
    /\ allSummaryCardsVector[base_slot + 1].rawData # <<>>
    /\ allSummaryCardsVector[base_slot + 2].indicatorVector # <<>>

\* C5: fetchSummaryCard performs the request again only after an error of
\* the retryable set (timeout, DNS failure, connect failure, recv error,
\* send error, empty response) and only while fewer than MAX_RETRIES + 1
\* requests were made; it stops at the first transport success and after a
\* first error that is not retryable.
RetryableSet ==
    {"CURLE_OPERATION_TIMEDOUT", "CURLE_COULDNT_RESOLVE_HOST",
     "CURLE_COULDNT_CONNECT", "CURLE_RECV_ERROR", "CURLE_SEND_ERROR",
     "CURLE_GOT_NOTHING"}
CurlCodes ==
    RetryableSet \cup TransportErrors
        \cup {"CURLE_OK", "CURLE_HTTP_RETURNED_ERROR", "CURLE_UNSUPPORTED_PROTOCOL"}

C5_Turn ==
    \A w \in Workers :
        /\ FetchRetries(w) =>
              /\ result'[w] \in RetryableSet
              /\ attempt[w] < MAX_RETRIES
        /\ FetchReturns(w) =>
              \/ result'[w] = "CURLE_OK"
              \/ result'[w] \notin RetryableSet
              \/ attempt[w] = MAX_RETRIES

C5_RetryOnlyRetryable ==
    /\ [](\A code \in CurlCodes : isRetryable(code) <=> code \in RetryableSet)
    /\ [](\A w \in Workers : attempt[w] + 1 <= MAX_RETRIES + 1)
    /\ [][C5_Turn]_vars

C5_SuccessOnLastAttempt ==
    /\ wpc[1] = "progress"
    /\ attempt[1] = MAX_RETRIES
    /\ result[1] = "CURLE_OK"
    /\ wpc[2] = "progress"
    /\ attempt[2] = 0
    /\ result[2] = "CURLE_SSL_CONNECT_ERROR"

\* C6: a fetch that succeeds with body B after one or more retryable
\* failures leaves the card that a first-attempt success with B leaves:
\* the same indicators, categories included, and the same category index.
FirstAttemptCard(body, junk) ==
    ParseRawData(AppendRawData(DefaultCard, body), junk)

C6_RetriedCardEqualsFirstAttemptCard ==
    \A w \in Workers :
        (wpc[w] = "progress" /\ decoded[w] /\ attempt[w] > 0) =>
            \E junk \in Indeterminate :
                /\ SlotCard(w).indicatorVector
                       = FirstAttemptCard(received[w], junk).indicatorVector
                /\ SlotCard(w).categoryToIndicatorMap
                       = FirstAttemptCard(received[w], junk).categoryToIndicatorMap

\* C7: decoding is entered only if the transport succeeded, the status is
\* in 200..299, the body is non-empty and its first byte that is not white
\* space is '{' or '['; otherwise fetchSummaryCard returns an error with no
\* decoding and no further request, the indicators empty and the raw body
\* as received.
FirstNonSpaceOpensJson(raw) ==
    \E i \in 1..Len(raw) :
        /\ raw[i] # "WS"
        /\ \A j \in 1..(i - 1) : raw[j] = "WS"
        /\ FirstByte(raw[i]) \in {"{", "["}

MayDecode(w) ==
    /\ result[w] = "CURLE_OK"
    /\ http_code[w] \in 200..299
    /\ received[w] # <<>>
    /\ FirstNonSpaceOpensJson(received[w])

C7_DecodeOnlyGoodResponses ==
    /\ [](\A w \in Workers : wpc[w] = "progress" =>
            /\ decoded[w] <=> MayDecode(w)
            /\ ~decoded[w] =>
                  /\ ret[w] # "CURLE_OK"
                  /\ SlotCard(w).indicatorVector = <<>>
                  /\ SlotCard(w).rawData = received[w])
    /\ [][\A w \in Workers : FetchRetries(w) => result'[w] # "CURLE_OK"]_vars

C7_MarkupBodyNotDecoded ==
    /\ wpc[1] = "progress"
    /\ result[1] = "CURLE_OK"
    /\ http_code[1] = 200
    /\ received[1] = <<"WS", "LT">>
    /\ ~decoded[1]
    /\ wpc[2] = "progress"
    /\ http_code[2] = 300
    /\ received[2] = <<"LB", "E1">>
    /\ ~decoded[2]

\* C8: for every rate R with 0 < R < 1000, under fair scheduling and an
\* advancing clock, every call of acquireToken eventually returns, and
\* each return deducts exactly one token.
C8_EveryCallReturns ==
    /\ \A c \in Callers : (lpc[c] = "entry") ~> (lpc[c] = "idle")
    /\ [][\A c \in Callers :
             (lpc[c] = "check" /\ lpc'[c] = "idle")
                 => tokens_' = tokens_ - TokenUnit(max_requests_per_sec_)]_vars

\* C9 (as stated): when R < 1000, at most ceil(R) + 1 calls of acquireToken
\* return within any one-second window.
Ceil(r) == (r[1] + r[2] - 1) \div r[2]

C9_AtMostCeilRPlusOne ==
    ~Unlimited(max_requests_per_sec_) =>
        SumAges(ages, TicksPerSec - 1) <= Ceil(max_requests_per_sec_) + 1

\* C9 (amended): when R < 1000, at most 2 * R + 1 calls of acquireToken
\* return within any one-second window, its end points included: the R
\* tokens of a full bucket, the R tokens refilled during the window, and
\* one call that took its token before the window and returns inside it.
C9_AtMostTwiceRPlusOne ==
    ~Unlimited(max_requests_per_sec_) =>
        SumAges(ages, TicksPerSec) * max_requests_per_sec_[2]
            <= 2 * max_requests_per_sec_[1] + max_requests_per_sec_[2]

C9_WindowHoldsTwiceRPlusOne ==
    /\ max_requests_per_sec_ = <<1, 1>>
    /\ SumAges(ages, TicksPerSec) = 3
    /\ ages[0] = 1

\* C10: parseRawData returns for any raw body and any prior state of the
\* card, and when the body is not valid JSON the indicator list of the card
\* is empty after the call.
C10_InvalidBodyLeavesNoIndicators ==
    (cardOp \in {"parseRawData", "loadFromFile:true"} /\ ~ParseJson(card.rawData).ok)
        => card.indicatorVector = <<>>

-----------------------------------------------------------------------------
(***************************************************************************)
(* The pool at the grain of its locks (PoolSpec): queue.mtx, queue.cv,     *)
(* the atomic counters and progress_mutex_.  The coordinator's set-up and  *)
(* the limiter are those of the engine; a fetch is one step that leaves    *)
(* a decoded card or a failed one in its slot.                             *)
(***************************************************************************)
PROGRESS_STEPS == 400

Coordinator == -1

\* std::max(std::size_t(1), total / 400)
PrintEvery(total) == IF total \div PROGRESS_STEPS > 1 THEN total \div PROGRESS_STEPS ELSE 1

\* done % print_every == 0 || done == total
ShouldPrint(done, total) == done % PrintEvery(total) = 0 \/ done = total

\* A wait that returns whatever the queue holds.
WaitOverAlways(q) == TRUE

\* The predicate of q.cv.wait: !q.items.empty() || q.done
WaitOver(q) == q.items # <<>> \/ q.done

\* The locals of a worker's loop turn go out of scope.
TurnEnds(w) ==
    /\ wurl'      = [wurl EXCEPT ![w] = <<>>]
    /\ wslot'     = [wslot EXCEPT ![w] = 0]
    /\ wdone'     = [wdone EXCEPT ![w] = 0]

\* runFullURLFetch starts: the set-up of the engine; the lines and the
\* call arguments recorded are those of this run.
PoolRunStart ==
    /\ RunStart
    /\ progressLog' = <<>>
    /\ slotUrl' = [s \in Slots |-> <<>>]
    /\ popLog' = <<>>
    /\ UNCHANGED <<qmtx, progress_mutex_, wdone>>
    /\ UNCHANGED refineVars

\* pthread_create fails: the coordinator goes on to close the queue.
PoolSpawnFails ==
    /\ cpc = "spawn"
    /\ setupFailure' = "pthread_create"
    /\ cpc' = "fsignal"
    /\ UNCHANGED <<apiVars, rateVars, workVars, cardVars, limVars, unitVars,
                   loadVars, enrichVars, poolVars, refineVars>>
    /\ UNCHANGED <<base_slot, n, queue, handles, resolve_list, spawned, runResult>>
    /\ UNCHANGED <<fetchCalls, decoded, received, slept, failedSlots>>

\* std::lock_guard<std::mutex> lk(queue.mtx) in the coordinator, on the
\* normal path and after a failed pthread_create.
PoolSignalLock ==
    /\ cpc \in {"signal", "fsignal"}
    /\ qmtx = 0
    /\ qmtx' = Coordinator
    /\ cpc' = IF cpc = "signal" THEN "set" ELSE "fset"
    /\ UNCHANGED <<apiVars, rateVars, workVars, obsVars, cardVars, limVars, unitVars,
                   loadVars, enrichVars>>
    /\ UNCHANGED <<base_slot, n, queue, handles, resolve_list, spawned, runResult>>
    /\ UNCHANGED <<progress_mutex_, wdone, progressLog, slotUrl, popLog>>
    /\ UNCHANGED refineVars

\* queue.done = true; and the end of the lock's scope.
PoolSignalSet ==
    /\ cpc \in {"set", "fset"}
    /\ queue' = [queue EXCEPT !.done = TRUE]
    /\ qmtx' = 0
    /\ cpc' = IF cpc = "set" THEN "notify" ELSE "fnotify"
    /\ UNCHANGED <<apiVars, rateVars, workVars, obsVars, cardVars, limVars, unitVars,
                   loadVars, enrichVars>>
    /\ UNCHANGED <<base_slot, n, handles, resolve_list, spawned, runResult>>
    /\ UNCHANGED <<progress_mutex_, wdone, progressLog, slotUrl, popLog>>
    /\ UNCHANGED refineVars

\* A notify_all that wakes nobody.
PoolNotifyNone ==
    /\ cpc \in {"notify", "fnotify"}
    /\ cpc' = IF cpc = "notify" THEN "join" ELSE "joinfail"
    /\ UNCHANGED <<apiVars, rateVars, workVars, obsVars, cardVars, limVars, unitVars,
                   loadVars, enrichVars, poolVars, refineVars>>
    /\ UNCHANGED <<base_slot, n, queue, handles, resolve_list, spawned, runResult>>

\* queue.cv.notify_all(): every worker blocked in the wait wakes.
PoolNotifyAll ==
    /\ cpc \in {"notify", "fnotify"}
    /\ wpc' = [w \in Workers |-> IF wpc[w] = "waiting" THEN "pop" ELSE wpc[w]]
    /\ cpc' = IF cpc = "notify" THEN "join" ELSE "joinfail"
    /\ UNCHANGED <<apiVars, rateVars, obsVars, cardVars, limVars, unitVars,
                   loadVars, enrichVars, poolVars, refineVars>>
    /\ UNCHANGED <<wurl, wslot, attempt, result, http_code, ret>>
    /\ UNCHANGED <<base_slot, n, queue, handles, resolve_list, spawned, runResult>>

\* std::unique_lock<std::mutex> lk(q.mtx), on entry and after a wake-up.
PoolLock(w) ==
    /\ wpc[w] = "pop"
    /\ qmtx = 0
    /\ qmtx' = w
    /\ wpc' = [wpc EXCEPT ![w] = "check"]
    /\ UNCHANGED <<apiVars, rateVars, coordVars, obsVars, cardVars, limVars, unitVars,
                   loadVars, enrichVars>>
    /\ UNCHANGED <<wurl, wslot, attempt, result, http_code, ret>>
    /\ UNCHANGED <<progress_mutex_, wdone, progressLog, slotUrl, popLog>>
    /\ UNCHANGED refineVars

\* q.cv.wait finds its predicate false: the mutex is released and the
\* worker blocks.
PoolWait(w) ==
    /\ wpc[w] = "check"
    /\ ~WaitOver(queue)
    /\ qmtx' = 0
    /\ wpc' = [wpc EXCEPT ![w] = "waiting"]
    /\ UNCHANGED <<apiVars, rateVars, coordVars, obsVars, cardVars, limVars, unitVars,
                   loadVars, enrichVars>>
    /\ UNCHANGED <<wurl, wslot, attempt, result, http_code, ret>>
    /\ UNCHANGED <<progress_mutex_, wdone, progressLog, slotUrl, popLog>>
    /\ UNCHANGED refineVars

\* A wake-up without a notification.
PoolSpuriousWake(w) ==
    /\ wpc[w] = "waiting"
    /\ wpc' = [wpc EXCEPT ![w] = "pop"]
    /\ UNCHANGED <<apiVars, rateVars, coordVars, obsVars, cardVars, limVars, unitVars,
                   loadVars, enrichVars, poolVars, refineVars>>
    /\ UNCHANGED <<wurl, wslot, attempt, result, http_code, ret>>

\* A pop whose lock outlives the queue section.
PoolPopKeepsLock(w) ==
    /\ wpc[w] = "check"
    /\ WaitOver(queue)
    /\ IF queue.items = <<>>
          THEN /\ wpc' = [wpc EXCEPT ![w] = "exited"]
               /\ qmtx' = 0
               /\ UNCHANGED <<queue, wurl, popLog>>
          ELSE /\ wurl' = [wurl EXCEPT ![w] = Head(queue.items)]
               /\ queue' = [queue EXCEPT !.items = Tail(queue.items)]
               /\ wpc' = [wpc EXCEPT ![w] = "acquire"]
               /\ popLog' = Append(popLog, [worker |-> w, url |-> Head(queue.items)])
               /\ UNCHANGED qmtx
    /\ UNCHANGED <<apiVars, rateVars, obsVars, cardVars, limVars, unitVars,
                   loadVars, enrichVars>>
    /\ UNCHANGED <<wslot, attempt, result, http_code, ret>>
    /\ UNCHANGED <<cpc, base_slot, n, handles, resolve_list, spawned, runResult>>
    /\ UNCHANGED <<progress_mutex_, wdone, progressLog, slotUrl>>
    /\ UNCHANGED refineVars

\* The wait is over: `if (q.items.empty()) break;`, else the front URL is
\* moved out and popped; the lock's scope ends.
PoolPop(w) ==
    /\ wpc[w] = "check"
    /\ WaitOver(queue)
    /\ IF queue.items = <<>>
          THEN /\ wpc' = [wpc EXCEPT ![w] = "exited"]
               /\ UNCHANGED <<queue, wurl, popLog>>
          ELSE /\ wurl' = [wurl EXCEPT ![w] = Head(queue.items)]
               /\ queue' = [queue EXCEPT !.items = Tail(queue.items)]
               /\ wpc' = [wpc EXCEPT ![w] = "acquire"]
               /\ popLog' = Append(popLog, [worker |-> w, url |-> Head(queue.items)])
    /\ qmtx' = 0
    /\ UNCHANGED <<apiVars, rateVars, obsVars, cardVars, limVars, unitVars,
                   loadVars, enrichVars>>
    /\ UNCHANGED <<wslot, attempt, result, http_code, ret>>
    /\ UNCHANGED <<cpc, base_slot, n, handles, resolve_list, spawned, runResult>>
    /\ UNCHANGED <<progress_mutex_, wdone, progressLog, slotUrl>>
    /\ UNCHANGED refineVars

\* What a call of fetchSummaryCard leaves in its card: the decode of a
\* good response, or nothing.
PoolFetchResults(c) == {c, LoadFromFile(c, <<"LB", "E1", "RB">>, 0)}

\* fetchSummaryCard(a->curl, url, allSummaryCardsVector[slot]) as one step.
PoolFetch(w) ==
    /\ wpc[w] = "fetch"
    /\ \E c \in PoolFetchResults(SlotCard(w)) :
          /\ allSummaryCardsVector' =
                 [allSummaryCardsVector EXCEPT ![wslot[w] + 1] = c]
          /\ failedSlots' = IF c.indicatorVector = <<>>
                               THEN failedSlots \cup {wslot[w]} ELSE failedSlots
    /\ slotUrl' = [slotUrl EXCEPT ![wslot[w]] = wurl[w]]
    /\ wpc' = [wpc EXCEPT ![w] = "progress"]
    /\ UNCHANGED <<pool_size_, max_requests_per_sec_, urls_,
                   total_, completed_, next_slot_>>
    /\ UNCHANGED <<rateVars, coordVars, cardVars, limVars, unitVars, loadVars, enrichVars>>
    /\ UNCHANGED <<wurl, wslot, attempt, result, http_code, ret>>
    /\ UNCHANGED <<fetchCalls, decoded, received, slept, setupFailure>>
    /\ UNCHANGED <<qmtx, progress_mutex_, wdone, progressLog, popLog>>
    /\ UNCHANGED refineVars

\* done = ++completed_, and the test that decides whether a line is written.
PoolCount(w) ==
    /\ wpc[w] = "progress"
    /\ completed_' = completed_ + 1
    /\ IF ShouldPrint(completed_ + 1, total_)
          THEN /\ wdone' = [wdone EXCEPT ![w] = completed_ + 1]
               /\ wpc' = [wpc EXCEPT ![w] = "printlock"]
               /\ UNCHANGED <<wurl, wslot>>
          ELSE /\ TurnEnds(w)
               /\ wpc' = [wpc EXCEPT ![w] = "pop"]
    /\ UNCHANGED <<pool_size_, max_requests_per_sec_, urls_,
                   allSummaryCardsVector, total_, next_slot_>>
    /\ UNCHANGED <<rateVars, coordVars, obsVars, cardVars, limVars, unitVars,
                   loadVars, enrichVars>>
    /\ UNCHANGED <<attempt, result, http_code, ret>>
    /\ UNCHANGED <<qmtx, progress_mutex_, progressLog, slotUrl, popLog>>
    /\ UNCHANGED refineVars

\* std::lock_guard<std::mutex> lk(progress_mutex_); the line is begun.
PoolPrintLock(w) ==
    /\ wpc[w] = "printlock"
    /\ progress_mutex_ = 0
    /\ progress_mutex_' = w
    /\ wpc' = [wpc EXCEPT ![w] = "print"]
    /\ UNCHANGED <<apiVars, rateVars, coordVars, obsVars, cardVars, limVars, unitVars,
                   loadVars, enrichVars>>
    /\ UNCHANGED <<wurl, wslot, attempt, result, http_code, ret>>
    /\ UNCHANGED <<qmtx, wdone, progressLog, slotUrl, popLog>>
    /\ UNCHANGED refineVars

\* The line is complete (fflush) and the lock's scope ends; the turn of
\* the loop ends.
PoolPrint(w) ==
    /\ wpc[w] = "print"
    /\ progressLog' = Append(progressLog, [done |-> wdone[w], total |-> total_])
    /\ progress_mutex_' = IF progress_mutex_ = w THEN 0 ELSE progress_mutex_
    /\ TurnEnds(w)
    /\ wpc' = [wpc EXCEPT ![w] = "pop"]
    /\ UNCHANGED <<apiVars, rateVars, coordVars, obsVars, cardVars, limVars, unitVars,
                   loadVars, enrichVars>>
    /\ UNCHANGED <<attempt, result, http_code, ret>>
    /\ UNCHANGED <<qmtx, slotUrl, popLog>>
    /\ UNCHANGED refineVars

\* The steps of the coordinator inside a call of runFullURLFetch, and the
\* steps of worker w.
PoolCoordinator ==
    \/ InitHandle
    \/ InitHandleFails
    \/ SpawnWorker
    \/ PoolSpawnFails
    \/ PoolSignalLock
    \/ PoolSignalSet
    \/ PoolNotifyAll
    \/ JoinAndReturn
    \/ JoinAfterSpawnFailure

PoolWorker(w) ==
    \/ PoolLock(w)
    \/ PoolWait(w)
    \/ PoolPop(w)
    \/ WorkerAcquire(w)
    \/ WorkerClaim(w)
    \/ PoolFetch(w)
    \/ PoolCount(w)
    \/ PoolPrintLock(w)
    \/ PoolPrint(w)

PoolNext ==
    \/ \E urls \in UrlLists : LoadInURLs(urls) /\ UNCHANGED loadVars
    \/ RunNoUrls
    \/ PoolRunStart
    \/ InitHandle
    \/ InitHandleFails
    \/ SpawnWorker
    \/ PoolSpawnFails
    \/ PoolSignalLock
    \/ PoolSignalSet
    \/ PoolNotifyAll
    \/ JoinAndReturn
    \/ JoinAfterSpawnFailure
    \/ \E w \in Workers : PoolLock(w)
    \/ \E w \in Workers : PoolWait(w)
    \/ \E w \in Workers : PoolSpuriousWake(w)
    \/ \E w \in Workers : PoolPop(w)
    \/ \E w \in Workers : WorkerAcquire(w)
    \/ \E w \in Workers : WorkerClaim(w)
    \/ \E w \in Workers : PoolFetch(w)
    \/ \E w \in Workers : PoolCount(w)
    \/ \E w \in Workers : PoolPrintLock(w)
    \/ \E w \in Workers : PoolPrint(w)

PoolSpec == Init /\ [][PoolNext]_vars

\* The pool under fair scheduling, with an unlimited rate and loads of one
\* accepted URL: a thread that can take a step takes one, and a thread that
\* asks for a mutex again and again gets it.  A wake-up without
\* notification may never come.
PoolLoaded ==
    /\ Init
    /\ max_requests_per_sec_ = <<UnlimitedRate, 1>>

PoolFairNext ==
    \/ \E urls \in {<<UrlA>>} : LoadInURLs(urls) /\ UNCHANGED loadVars
    \/ PoolRunStart
    \/ PoolCoordinator
    \/ \E w \in Workers : PoolWorker(w)
    \/ \E w \in Workers : PoolSpuriousWake(w)

PoolFair ==
    /\ PoolLoaded
    /\ [][PoolFairNext]_vars
    /\ WF_vars(PoolCoordinator)
    /\ SF_vars(PoolSignalLock)
    /\ \A w \in Workers :
          /\ WF_vars(PoolWorker(w))
          /\ SF_vars(PoolLock(w) \/ PoolPrintLock(w))

-----------------------------------------------------------------------------
(***************************************************************************)
(* One call of SummaryCard::parseIndicator on one entry (EntrySpec)        *)
(***************************************************************************)
\* JSON numbers a field may be given.  2^31 is 1 * 2^32 - 2^31.
Two31 == JWide("unsigned", 1, (-2147483647) - 1, "2147483648")
Two32Plus1 == JWide("unsigned", 1, 1, "4294967297")
MinusTwo32Plus1 == JWide("integer", -1, 1, "-4294967295")
Two24Plus1 == JWide("unsigned", 0, 16777217, "16777217")

\* Values of the key indicatorId.
IdValues ==
    {JNum("unsigned", 0), JNum("unsigned", 1), JNum("unsigned", 8),
     JNum("unsigned", 9), JNum("integer", -1), Two31, Two32Plus1,
     MinusTwo32Plus1, JFrac(1, "1.5"), JFrac(8, "8.5"), JStr("1"), JNull}

\* Values of a key of the primary block.
FieldValues ==
    {JNull, JStr("7"), JStr("abc"), JBool(TRUE), JBool(FALSE),
     JNum("unsigned", 5), JNum("integer", -3), JFrac(2, "2.5"),
     Two31, Two32Plus1, Two24Plus1, JArr(<<>>), JObj(<<>>)}

StringFields == {"cdsCode", "studentGroup"}
FloatFields  == {"status", "change"}
IntFields    == {"changeId", "statusId", "performance",
                 "red", "orange", "yellow", "green", "blue"}
SizeTFields  == {"totalGroups", "schoolYearId"}
LongFields   == {"count"}
BoolFields   == {"isPrivateData"}
PrimaryFields ==
    StringFields \cup FloatFields \cup IntFields \cup SizeTFields
        \cup LongFields \cup BoolFields

\* A primary block giving every field the same value.
UniformPrimary(v) == JObj([k \in PrimaryFields |-> v])

\* Values of the key primary that are objects, and values that are not.
ObjectPrimaries ==
    {UniformPrimary(v) : v \in FieldValues} \cup {JObj(<<>>), PrimaryX(9)}
OtherPrimaries == {JNull, JStr("x"), JNum("unsigned", 5), JArr(<<>>)}

\* The entries parseIndicator is called with.
Entries ==
    {JObj([indicatorId |-> id, primary |-> p]) :
        id \in IdValues, p \in ObjectPrimaries \cup OtherPrimaries}
    \cup {JObj([indicatorId |-> id]) : id \in IdValues}
    \cup {JObj([primary |-> p]) : p \in ObjectPrimaries}
    \cup {JNull, JNum("unsigned", 5), JStr("x"), JArr(<<>>)}

\* The call: parseIndicator(entryArg) on a card whose table is intact.
UnitParse ==
    /\ parsedInd = <<>>
    /\ \E junk \in Indeterminate :
          parsedInd' = ParseIndicator(entryArg, card.indicatorsMap, junk)
    /\ UNCHANGED entryArg

\* The next call is made with another entry.
UnitNextEntry ==
    /\ parsedInd # <<>>
    /\ entryArg' \in Entries
    /\ parsedInd' = <<>>

EntryInit ==
    /\ EngineAtRest
    /\ CardIdle
    /\ LimiterIdle
    /\ entryArg \in Entries
    /\ parsedInd = <<>>
    /\ LoadIdle /\ EnrichIdle /\ PoolIdle /\ GuardedIdle

EntryNext ==
    /\ \/ UnitParse
       \/ UnitNextEntry
    /\ UNCHANGED <<apiVars, rateVars, coordVars, workVars, obsVars, cardVars, limVars,
                   loadVars, enrichVars, poolVars, refineVars>>

EntrySpec == EntryInit /\ [][EntryNext]_vars

-----------------------------------------------------------------------------
(***************************************************************************)
(* enrichCardsWithMetadata and enrichWorker (main.cpp) (EnrichSpec)        *)
(***************************************************************************)
MaxThreads == 2     \* largest hardware_concurrency()
MaxEnrich  == 3     \* longest array handed to the pass

\* A string is a sequence of pieces; '/' is always a piece of its own.
BASE_URL == <<"https:", "/", "/", "api.caschooldashboard.org", "/", "Reports", "/">>

\* buildURLVectorForSchools: BASE_URL + cds + "/" + yearId + "/SummaryCards"
ReportUrl(cds, yearId) == BASE_URL \o <<cds, "/", yearId, "/", "SummaryCards">>

UrlX9  == ReportUrl("X", "9")
UrlX10 == ReportUrl("X", "10")
UrlNoSlash == BASE_URL \o <<"X">>
FetchUrls == {UrlX9, UrlX10}

\* urlMetadata[url] = {schoolName, year}, with YEAR_TO_ID read backwards.
MetaOf(url) ==
    IF url = UrlX9 THEN <<"School X", "2023">>
    ELSE IF url = UrlX10 THEN <<"School X", "2024">>
    ELSE <<"School Y", "2023">>

MetadataMaps ==
    {[u \in D |-> MetaOf(u)] : D \in {{}, {UrlX9}, {UrlX9, UrlX10},
                                      {UrlX9, UrlX10, UrlNoSlash}}}

\* std::string::find(ch, from) with positions counted from 1; 0 is npos.
Find(str, ch, from) ==
    LET hits == {k \in from..Len(str) : str[k] = ch}
    IN  IF hits = {} THEN 0 ELSE CHOOSE k \in hits : \A m \in hits : k <= m

\* std::to_string(size_t)
to_string(w) == IF w.hi = 0 /\ w.lo >= 0 THEN ToString(w.lo) ELSE "18446744073709551615"

\* A std::string member as pieces.
Pieces(str) == IF str = "" THEN <<>> ELSE <<str>>

\* The key a URL of urlMetadata is filed under, or <<>> when it has no
\* two slashes after BASE_URL.
UrlKey(url) ==
    LET stripped == SubSeq(url, Len(BASE_URL) + 1, Len(url))
        slash1   == Find(stripped, "/", 1)
        slash2   == Find(stripped, "/", slash1 + 1)
    IN  IF slash1 = 0 \/ slash2 = 0 THEN <<>>
        ELSE SubSeq(stripped, 1, slash1 - 1) \o <<":">>
                 \o SubSeq(stripped, slash1 + 1, slash2 - 1)

\* The loop that builds the flat lookup.
BuildLookup(meta) ==
    LET keyed == {u \in DOMAIN meta : UrlKey(u) # <<>>}
    IN  [k \in {UrlKey(u) : u \in keyed} |->
            meta[CHOOSE u \in keyed : UrlKey(u) = k]]

\* The key enrichWorker computes from the first indicator of a card.
CardKey(c) ==
    Pieces(c.indicatorVector[1].cdsCode) \o <<":">>
        \o <<to_string(c.indicatorVector[1].schoolYearId)>>

\* The body of enrichWorker's loop for one card.
EnrichCard(c, lk) ==
    IF c.indicatorVector = <<>> THEN c
    ELSE IF CardKey(c) \in DOMAIN lk
        THEN SetMetadata(c, lk[CardKey(c)][1], lk[CardKey(c)][2])
    ELSE c

\* A chunk by floor division.
ChunkFloor == Len(ecards) \div nThreads

\* chunk = (n + nThreads - 1) / nThreads
Chunk == (Len(ecards) + nThreads - 1) \div nThreads

ThreadIds == 0..(MaxThreads - 1)

\* The cards a fetch of url may have left in its slot: the empty card of a
\* failed fetch, or the decode of a response.
ResponseBodies(url) ==
    {<<"LB", IF url = UrlX9 THEN "E1" ELSE "E7b", "RB">>, <<"LB", "EP", "E1", "RB">>}
CardsFor(url) ==
    {DefaultCard} \cup
    {LoadFromFile(DefaultCard, b, junk) :
        b \in ResponseBodies(url), junk \in Indeterminate}

\* enrichWorker on the range [from, to) of the array, as one step.
RECURSIVE EnrichRange(_, _, _, _)
EnrichRange(cs, from, to, lk) ==
    IF from >= to THEN cs
    ELSE EnrichRange([cs EXCEPT ![from + 1] = EnrichCard(cs[from + 1], lk)],
                     from + 1, to, lk)

\* `if (cards.empty() || urlMetadata.empty()) return;`
EnrichNothing ==
    /\ epc = "idle"
    /\ ecards = <<>> \/ DOMAIN urlMetadata = {}
    /\ epc' = "returned"
    /\ UNCHANGED <<fetched, ecards, urlMetadata, lookup, nThreads, tcur,
                   espawned, jcur, tids, ethread, handed>>

\* The lookup is built and the spawn loop entered.
EnrichStart ==
    /\ epc = "idle"
    /\ ecards # <<>> /\ DOMAIN urlMetadata # {}
    /\ lookup' = BuildLookup(urlMetadata)
    /\ tcur' = 0
    /\ espawned' = 0
    /\ tids' = [t \in ThreadIds |-> "unset"]
    /\ ethread' = [t \in ThreadIds |-> [st |-> "none", i |-> 0, end |-> 0]]
    /\ handed' = <<>>
    /\ epc' = "spawn"
    /\ UNCHANGED <<fetched, ecards, urlMetadata, nThreads, jcur>>

InSpawnLoop ==
    /\ epc = "spawn"
    /\ tcur < nThreads
    /\ tcur * Chunk < Len(ecards)

\* pthread_create succeeds for slice t.
EnrichSpawn ==
    /\ InSpawnLoop
    /\ tids' = [tids EXCEPT ![tcur] = "set"]
    /\ ethread' = [ethread EXCEPT ![tcur] =
                       [st |-> "running", i |-> tcur * Chunk,
                        end |-> Min(tcur * Chunk + Chunk, Len(ecards))]]
    /\ handed' = Append(handed, [start |-> tcur * Chunk,
                                 end |-> Min(tcur * Chunk + Chunk, Len(ecards)),
                                 by |-> "thread"])
    /\ espawned' = espawned + 1
    /\ tcur' = tcur + 1
    /\ UNCHANGED <<fetched, ecards, urlMetadata, lookup, nThreads, epc, jcur>>

\* pthread_create fails for slice t: the slice is done on the calling thread.
EnrichSpawnFails ==
    /\ InSpawnLoop
    /\ ecards' = EnrichRange(ecards, tcur * Chunk,
                             Min(tcur * Chunk + Chunk, Len(ecards)), lookup)
    /\ handed' = Append(handed, [start |-> tcur * Chunk,
                                 end |-> Min(tcur * Chunk + Chunk, Len(ecards)),
                                 by |-> "caller"])
    /\ tcur' = tcur + 1
    /\ UNCHANGED <<fetched, urlMetadata, lookup, nThreads, epc, espawned, jcur,
                   tids, ethread>>

\* The spawn loop ends.
EnrichSpawnDone ==
    /\ epc = "spawn"
    /\ ~InSpawnLoop
    /\ epc' = "join"
    /\ jcur' = 0
    /\ UNCHANGED <<fetched, ecards, urlMetadata, lookup, nThreads, tcur,
                   espawned, tids, ethread, handed>>

\* What a find in the destroyed lookup may yield for a card with
\* indicators: nothing, or a pair of strings that is not the card's.
StaleEntries == {MetaOf(u) : u \in FetchUrls \cup {UrlNoSlash}}

\* One iteration of enrichWorker on thread t.  Once the caller has
\* returned, args and lookup are gone and the iteration reads freed
\* storage: the card is stamped as the lookup said, or not at all, or with
\* whatever the freed storage holds.
EnrichWorkerStep(t) ==
    /\ t \in DOMAIN ethread
    /\ ethread[t].st = "running"
    /\ LET i == ethread[t].i IN
       /\ \/ ecards' = [ecards EXCEPT ![i + 1] = EnrichCard(ecards[i + 1], lookup)]
          \/ epc = "returned" /\ ecards' = ecards
          \/ /\ epc = "returned"
             /\ ecards[i + 1].indicatorVector # <<>>
             /\ \E m \in StaleEntries :
                    ecards' = [ecards EXCEPT ![i + 1] = SetMetadata(@, m[1], m[2])]
       /\ ethread' = [ethread EXCEPT ![t] =
                          [st |-> IF i + 1 = ethread[t].end THEN "done" ELSE "running",
                           i |-> i + 1, end |-> ethread[t].end]]
    /\ UNCHANGED <<fetched, urlMetadata, lookup, nThreads, epc, tcur, espawned,
                   jcur, tids, handed>>

\* pthread_join(tids[t]) of a thread that was created returns when the
\* thread has ended.
EnrichJoin ==
    /\ epc = "join"
    /\ jcur < espawned
    /\ tids[jcur] = "set"
    /\ ethread[jcur].st = "done"
    /\ jcur' = jcur + 1
    /\ UNCHANGED <<fetched, ecards, urlMetadata, lookup, nThreads, epc, tcur,
                   espawned, tids, ethread, handed>>

\* pthread_join(tids[t]) of an id pthread_create never stored: the call
\* fails at once, or the process dies.
EnrichJoinUnset ==
    /\ epc = "join"
    /\ jcur < espawned
    /\ tids[jcur] = "unset"
    /\ \/ jcur' = jcur + 1 /\ epc' = epc
       \/ jcur' = jcur /\ epc' = "crashed"
    /\ UNCHANGED <<fetched, ecards, urlMetadata, lookup, nThreads, tcur,
                   espawned, tids, ethread, handed>>

EnrichReturn ==
    /\ epc = "join"
    /\ jcur = espawned
    /\ epc' = "returned"
    /\ UNCHANGED <<fetched, ecards, urlMetadata, lookup, nThreads, tcur,
                   espawned, jcur, tids, ethread, handed>>

EnrichInit ==
    /\ EngineAtRest
    /\ CardIdle
    /\ LimiterIdle
    /\ UnitIdle
    /\ LoadIdle
    /\ PoolIdle /\ GuardedIdle
    /\ \E len \in 0..MaxEnrich : fetched \in [1..len -> FetchUrls]
    /\ ecards \in [1..Len(fetched) -> UNION {CardsFor(u) : u \in FetchUrls}]
    /\ \A k \in 1..Len(fetched) : ecards[k] \in CardsFor(fetched[k])
    /\ urlMetadata \in MetadataMaps
    /\ nThreads \in 1..MaxThreads
    /\ lookup = <<>>
    /\ epc = "idle"
    /\ tcur = 0
    /\ espawned = 0
    /\ jcur = 0
    /\ tids = <<>>
    /\ ethread = <<>>
    /\ handed = <<>>

EnrichNext ==
    /\ \/ EnrichNothing
       \/ EnrichStart
       \/ EnrichSpawn
       \/ EnrichSpawnFails
       \/ EnrichSpawnDone
       \/ \E t \in ThreadIds : EnrichWorkerStep(t)
       \/ EnrichJoin
       \/ EnrichJoinUnset
       \/ EnrichReturn
    /\ UNCHANGED <<apiVars, rateVars, coordVars, workVars, obsVars, cardVars, limVars,
                   unitVars, loadVars, poolVars, refineVars>>

EnrichSpec == EnrichInit /\ [][EnrichNext]_vars

-----------------------------------------------------------------------------
(***************************************************************************)
(* The earlier, lock-guarded delivery: one thread per URL, each fetching   *)
(* into a card of its own and pushing it to the array under mutex_.  In    *)
(* RefineSpec an object runs the pool once and the lock-guarded version    *)
(* once on the same URL list; the two share nothing but the list.          *)
(***************************************************************************)
Threads == 1..MaxUrls

GuardedFrame ==
    UNCHANGED <<apiVars, rateVars, coordVars, workVars, obsVars, cardVars, limVars,
                unitVars, loadVars, enrichVars, poolVars, finalResponse>>

\* if (urls_.empty()) return false;
GuardedRunNoUrls ==
    /\ gpc = "idle"
    /\ urls_ = <<>>
    /\ gResult' = "false"
    /\ UNCHANGED <<guardedVector, gpc, gthread, mutex_>>
    /\ GuardedFrame

\* n = urls_.size(); args(n); tids(n);
GuardedRunStart ==
    /\ gpc = "idle"
    /\ urls_ # <<>>
    /\ gthread' = [i \in Threads |->
                      [st |-> "unborn", card |-> DefaultCard, resp |-> <<>>]]
    /\ gpc' = "spawn"
    /\ gResult' = "running"
    /\ UNCHANGED <<guardedVector, mutex_>>
    /\ GuardedFrame

\* The loop variable i of the spawn loop: the threads launched so far.
Launched == Cardinality({i \in Threads : gthread[i].st # "unborn"})

\* One turn of the spawn loop with pthread_create succeeding.
GuardedSpawn ==
    /\ gpc = "spawn"
    /\ gthread' = [gthread EXCEPT ![Launched + 1].st = "fetch"]
    /\ gpc' = IF Launched + 1 = Len(urls_) THEN "join" ELSE "spawn"
    /\ UNCHANGED <<guardedVector, mutex_, gResult>>
    /\ GuardedFrame

\* pthread_create fails: the threads already launched are joined.
GuardedSpawnFails ==
    /\ gpc = "spawn"
    /\ gpc' = "joinfail"
    /\ UNCHANGED <<guardedVector, gthread, mutex_, gResult>>
    /\ GuardedFrame

\* The bytes the server finally sent for url in the pool's run.
Answered(url) == {r.data : r \in {x \in finalResponse : x.url = url}}

\* What curl_easy_perform may deliver for url: a server that has answered
\* the URL answers it the same way again.
ServerOutcomes(url) ==
    IF Answered(url) = {} THEN PerformOutcomes
    ELSE {o \in PerformOutcomes : o.data \in Answered(url)}

\* What the one-attempt fetchSummaryCard leaves in the card and what it
\* received: nothing when curl_easy_init fails, else the bytes of the one
\* perform, appended and handed to parseRawData whatever the result.
GuardedFetchResults(url, c) ==
    {[card |-> c, resp |-> <<>>]}
    \cup {[card |-> ParseRawData(AppendRawData(c, o.data), junk),
           resp |-> <<o.data>>] : o \in ServerOutcomes(url),
                                  junk \in Indeterminate}

\* SummaryCard card; fetchSummaryCard(a->url, card);
ThreadFetch(i) ==
    /\ gthread[i].st = "fetch"
    /\ \E r \in GuardedFetchResults(urls_[i], DefaultCard) :
          gthread' = [gthread EXCEPT ![i] =
                         [st |-> "lock", card |-> r.card, resp |-> r.resp]]
    /\ UNCHANGED <<guardedVector, gpc, mutex_, gResult>>
    /\ GuardedFrame

\* mutex_.lock();
ThreadLock(i) ==
    /\ gthread[i].st = "lock"
    /\ mutex_ = 0
    /\ mutex_' = i
    /\ gthread' = [gthread EXCEPT ![i].st = "push"]
    /\ UNCHANGED <<guardedVector, gpc, gResult>>
    /\ GuardedFrame

\* allSummaryCardsVector.push_back(std::move(card)); mutex_.unlock();
ThreadPush(i) ==
    /\ gthread[i].st = "push"
    /\ guardedVector' = Append(guardedVector, gthread[i].card)
    /\ mutex_' = 0
    /\ gthread' = [gthread EXCEPT ![i].st = "exited"]
    /\ UNCHANGED <<gpc, gResult>>
    /\ GuardedFrame

\* The joins of all n threads and `return true`.
GuardedJoin ==
    /\ gpc = "join"
    /\ \A i \in 1..Len(urls_) : gthread[i].st = "exited"
    /\ gResult' = "true"
    /\ gpc' = "idle"
    /\ UNCHANGED <<guardedVector, gthread, mutex_>>
    /\ GuardedFrame

\* The joins of the threads launched before the failure; `return false`.
GuardedJoinFail ==
    /\ gpc = "joinfail"
    /\ \A i \in 1..Launched : gthread[i].st = "exited"
    /\ gResult' = "false"
    /\ gpc' = "idle"
    /\ UNCHANGED <<guardedVector, gthread, mutex_>>
    /\ GuardedFrame

\* The pool's fetch returns: its last perform, for the record.
ObservedFetchReturn(w) ==
    /\ FetchTurnReturn(w)
    /\ finalResponse' = finalResponse \cup
           {[slot |-> wslot[w], url |-> wurl[w], data |-> received'[w]]}
    /\ UNCHANGED <<guardedVector, gpc, gthread, mutex_, gResult>>

PoolHasRun == cpc = "idle" /\ runResult \in {"true", "false"}

RefineInit ==
    /\ Init
    /\ max_requests_per_sec_ = <<UnlimitedRate, 1>>

RefineNext ==
    \/ /\ runResult = "none"
       /\ \E urls \in UrlLists : LoadInURLs(urls) /\ UNCHANGED loadVars
    \/ runResult = "none" /\ RunNoUrls
    \/ /\ runResult = "none"
       /\ RunStart /\ resolve_list' = "live" /\ UNCHANGED <<poolVars, refineVars>>
    \/ InitHandle
    \/ InitHandleFails
    \/ SpawnWorker
    \/ SpawnWorkerFails
    \/ SignalDone
    \/ JoinAndReturn
    \/ JoinAfterSpawnFailure
    \/ \E w \in Workers : WorkerPop(w)
    \/ \E w \in Workers : WorkerAcquire(w)
    \/ \E w \in Workers : WorkerClaim(w)
    \/ \E w \in Workers : FetchTurnRetry(w)
    \/ \E w \in Workers : ObservedFetchReturn(w)
    \/ \E w \in Workers : WorkerProgress(w)
    \/ PoolHasRun /\ gResult = "none" /\ GuardedRunNoUrls
    \/ PoolHasRun /\ gResult = "none" /\ GuardedRunStart
    \/ GuardedSpawn
    \/ GuardedSpawnFails
    \/ \E i \in Threads : ThreadFetch(i)
    \/ \E i \in Threads : ThreadLock(i)
    \/ \E i \in Threads : ThreadPush(i)
    \/ GuardedJoin
    \/ GuardedJoinFail

RefineSpec == RefineInit /\ [][RefineNext]_vars

-----------------------------------------------------------------------------
\* The card has just decoded its text, and the text was valid JSON.
JustDecoded ==
    /\ cardOp \in {"parseRawData", "loadFromFile:true"}
    /\ card.rawData # <<>>
    /\ ParseJson(card.rawData).ok

\* The object entries of a decoded document, in document order.
ObjectEntries(doc) ==
    IF is_array(doc) THEN SelectSeq(doc.a, is_object)
    ELSE IF is_object(doc) THEN <<doc>>
    ELSE <<>>

\* C11: after a successful decode the indicator list has one indicator per
\* object entry of an array, in the array's order, with every non-object
\* entry skipped; a top-level object gives the list of that one entry, and
\* any other top-level value gives the empty list.
C11_OneIndicatorPerObjectEntry ==
    JustDecoded =>
        LET exp == ObjectEntries(ParseJson(card.rawData).value)
            got == card.indicatorVector
        IN  /\ Len(got) = Len(exp)
            /\ \A i \in 1..Len(exp) :
                  /\ got[i].indicatorId = GetWide(exp[i].o.indicatorId)
                  /\ got[i].primary = exp[i].o.primary

C11_ArrayWithSkippedEntries ==
    /\ JustDecoded
    /\ card.rawData = <<"LB", "N5", "E7", "NUL", "E1", "RB">>
    /\ Len(card.indicatorVector) = 2

-----------------------------------------------------------------------------
\* The stored id is one of 1..8.
IdInTable(id) == id.hi = 0 /\ id.lo \in 1..8

\* The category the claims give an indicator with this stored id.
CategoryOf(id) == IF IdInTable(id) THEN IndicatorTable[id.lo] ELSE "UNKNOWN"

\* C12: in every state of a card, whatever operations led to it, each
\* indicator of the list has category "UNKNOWN" exactly when its id is
\* outside 1..8, and the table's name for its id otherwise.
C12_CategoryFollowsId ==
    \A i \in 1..Len(card.indicatorVector) :
        card.indicatorVector[i].indicatorCategory
            = CategoryOf(card.indicatorVector[i].indicatorId)

-----------------------------------------------------------------------------
\* parseIndicator has returned for an object entry.
ParsedObjectEntry == parsedInd # <<>> /\ is_object(entryArg)

\* C13: for every JSON number given as indicatorId (integers of 2^31 and
\* above, negative integers and fractional numbers included), an indicator
\* whose stored unsigned id is not in 1..8 has category "UNKNOWN".
C13_IdOutsideTableIsUnknown ==
    /\ ParsedObjectEntry
    /\ contains(entryArg, "indicatorId")
    /\ is_number(entryArg.o["indicatorId"])
    /\ ~IdInTable(parsedInd.indicatorId)
    => parsedInd.indicatorCategory = "UNKNOWN"

\* The JSON text of a value that is not a string.
Serialization(v) ==
    CASE v.t = "number"  -> v.text
      [] v.t = "boolean" -> IF v.b THEN "true" ELSE "false"
      [] v.t = "array"   -> "[]"
      [] v.t = "object"  -> "{}"

\* A number as a value of each C++ type, unchanged.
AsInt(v)   == v.n
AsWide(v)  == Wide(v.hi, v.n)
AsFloat(v) == Float(v.hi, v.n, v.frac)

\* What the rules of the primary block give field k for the value v of its
\* key (absent says that the key is missing).
RuleValue(k, absent, v) ==
    IF absent \/ is_null(v)
        THEN CASE k \in StringFields -> ""
               [] k \in FloatFields  -> Float(0, 0, FALSE)
               [] k \in IntFields    -> 0
               [] k \in BoolFields   -> FALSE
               [] OTHER              -> Wide(0, 0)
    ELSE CASE k \in StringFields -> IF is_string(v) THEN v.s ELSE Serialization(v)
           [] k \in FloatFields  -> IF is_number(v) THEN AsFloat(v) ELSE Float(0, 0, FALSE)
           [] k \in IntFields    -> IF is_number(v) THEN AsInt(v) ELSE 0
           [] k \in BoolFields   -> IF is_boolean(v) THEN v.b ELSE FALSE
           [] OTHER              -> IF is_number(v) THEN AsWide(v) ELSE Wide(0, 0)

\* The number is a value of the C++ type of field k.
Representable(k, v) ==
    CASE k \in IntFields   -> v.hi = 0 /\ ~v.frac
      [] k \in FloatFields -> v.hi = 0 /\ v.n < 16777216 /\ v.n > -16777216
      [] k \in SizeTFields -> ~v.frac /\ v.hi >= 0 /\ (v.hi = 0 => v.n >= 0)
      [] k \in LongFields  -> ~v.frac
      [] OTHER             -> TRUE

\* The entry is an object whose primary block is an object.
PrimaryIsObject ==
    /\ ParsedObjectEntry
    /\ contains(entryArg, "primary")
    /\ is_object(entryArg.o["primary"])

\* C14: every scalar field read from an object-valued primary block follows
\* the same rules: the default for a missing key or a null, the JSON
\* serialization for a string field given a non-string, the default for a
\* numeric field given a non-number and for a bool field given a non-bool,
\* and a value of the right type returned as is.
C14_FieldsFollowTheRules ==
    PrimaryIsObject =>
        LET p == entryArg.o["primary"] IN
        \A k \in PrimaryFields :
            parsedInd[k] = RuleValue(k, ~contains(p, k),
                                     IF contains(p, k) THEN p.o[k] ELSE JNull)

\* The rules of C14 for the numbers that the field's C++ type holds.
FieldsFollowTheRulesWhenRepresentable ==
    PrimaryIsObject =>
        LET p == entryArg.o["primary"] IN
        \A k \in PrimaryFields :
            (contains(p, k) /\ is_number(p.o[k]) => Representable(k, p.o[k]))
            => parsedInd[k] = RuleValue(k, ~contains(p, k),
                                        IF contains(p, k) THEN p.o[k] ELSE JNull)

\* C15: for an entry whose primary block is missing, null or not an object
\* the indicator returned has its id and category set from the entry and
\* every other scalar field at its default: numbers 0, isPrivateData false,
\* strings empty.
C15_NoPrimaryGivesDefaults ==
    /\ ParsedObjectEntry
    /\ ~PrimaryIsObject
    => /\ parsedInd.indicatorId = safeSizeT(entryArg, "indicatorId")
       /\ \A k \in PrimaryFields : parsedInd[k] = RuleValue(k, TRUE, JNull)

-----------------------------------------------------------------------------
\* The positions of the indicator list whose category is c.
PositionsOf(c) ==
    {i \in 1..Len(card.indicatorVector) :
        card.indicatorVector[i].indicatorCategory = c}

Max(S) == CHOOSE x \in S : \A y \in S : y <= x

Categories == {IndicatorTable[i] : i \in 1..8} \cup {"UNKNOWN", ""}

\* C16: after any sequence of decodes the category index has an entry for
\* a category exactly when an indicator of the current list has that
\* category, and the entry is the last such indicator of the list.
C16_IndexMatchesCurrentList ==
    JustDecoded =>
        \A c \in Categories :
            /\ c \in DOMAIN card.categoryToIndicatorMap <=> PositionsOf(c) # {}
            /\ PositionsOf(c) # {} /\ c \in DOMAIN card.categoryToIndicatorMap
                 => card.categoryToIndicatorMap[c]
                        = card.indicatorVector[Max(PositionsOf(c))]

-----------------------------------------------------------------------------
\* C17: decoding is idempotent: whatever operations (clear included) a
\* card went through before, the indicator list it decodes from a payload
\* equals the list a second decode of the payload gives on the same card,
\* and the list a new card decodes from that payload.
C17_DecodeEqualsFreshDecode ==
    JustDecoded =>
        \E junk \in Indeterminate :
            /\ ParseRawData(card, junk).indicatorVector = card.indicatorVector
            /\ StringCard(card.rawData, junk).indicatorVector = card.indicatorVector

\* C19: in every card whose non-empty indicator list was produced by a
\* decode, all indicators have the same cdsCode and the same schoolYearId.
C19_IndicatorsShareSchoolAndYear ==
    JustDecoded =>
        \A i, j \in 1..Len(card.indicatorVector) :
            /\ card.indicatorVector[i].cdsCode = card.indicatorVector[j].cdsCode
            /\ card.indicatorVector[i].schoolYearId
                   = card.indicatorVector[j].schoolYearId

-----------------------------------------------------------------------------
\* The entries of a list that are non-empty and begin with one of the three
\* scheme prefixes, in the list's order.
RECURSIVE WithScheme(_)
WithScheme(urls) ==
    IF urls = <<>> THEN <<>>
    ELSE LET u == Head(urls)
             keep == u # <<>> /\ Head(u) \in {"http://", "https://", "ftp://"}
         IN  (IF keep THEN <<u>> ELSE <<>>) \o WithScheme(Tail(urls))

\* C20: loadInURLs appends to the URLs loaded earlier exactly the entries
\* of its argument that are non-empty and begin with "http://", "https://"
\* or "ftp://", in the argument's order; it returns true exactly when it
\* accepted at least one entry, and leaves the list unchanged when it
\* returns false.
C20_LoadAppendsAcceptedUrls ==
    loadReturn # "none" =>
        /\ urls_ = loadBefore \o WithScheme(loadArg)
        /\ loadReturn = "true" <=> WithScheme(loadArg) # <<>>
        /\ loadReturn = "false" => urls_ = loadBefore

C20_AppendedAfterEarlierUrls ==
    /\ loadReturn = "true"
    /\ loadBefore # <<>>
    /\ Len(urls_) > Len(loadBefore)
    /\ Len(loadArg) > Len(urls_) - Len(loadBefore)

-----------------------------------------------------------------------------
\* urlMetadata has an entry for every fetched URL.
MetaComplete == \A k \in 1..Len(fetched) : fetched[k] \in DOMAIN urlMetadata

\* C18: after enrichCardsWithMetadata with a metadata map that has an
\* entry for every fetched URL, every card of the array whose indicator list
\* is non-empty has a non-empty schoolName and a non-empty year.
C18_NonEmptyCardsAreStamped ==
    epc = "returned" /\ MetaComplete =>
        \A k \in 1..Len(ecards) :
            ecards[k].indicatorVector # <<>>
                => ecards[k].schoolName # "" /\ ecards[k].year # ""

-----------------------------------------------------------------------------
\* The fields of the card at index i (from 0) are the same after the step.
CardKept(i) ==
    /\ i < Len(allSummaryCardsVector')
    /\ allSummaryCardsVector'[i + 1] = allSummaryCardsVector[i + 1]

\* C21: runFullURLFetch preserves the cards that were in the array before
\* the call: from the call to its return no step changes a card at an index
\* below base, and no worker claims or writes a slot below base.
C21_ExistingCardsPreserved ==
    /\ [][\A i \in 0..(Len(allSummaryCardsVector) - 1) :
             CardKept(i) \/ (cpc # "idle" /\ i >= base_slot)]_vars
    /\ [](\A w \in Workers : InFetch(w) => wslot[w] >= base_slot)

C21_SecondRunReturned ==
    /\ Returned("true")
    /\ base_slot > 0
    /\ completed_ = total_
    /\ allSummaryCardsVector[1].indicatorVector # <<>>
    /\ allSummaryCardsVector[base_slot + 1].rawData # <<>>

\* The URLs popped so far in this run, in the order of the pops.
PoppedUrls == [i \in 1..Len(popLog) |-> popLog[i].url]

\* The list the run put in the queue.
QueuedUrls == SubSeq(urls_, 1, total_)

\* C22: every URL placed in the work queue is popped by exactly one worker
\* exactly once, in the order of loading: once the run has returned true,
\* the pops of the run are the queued list, item for item.
C22_EveryQueuedUrlPoppedOnceInOrder ==
    Returned("true") => PoppedUrls = QueuedUrls

\* A worker thread that has been created and has not left its loop.
Alive(w) == wpc[w] \notin {"unborn", "exited"}

\* C23: the queue is filled, then closed, and only then do workers start:
\* no worker thread exists while the done flag is still false.
C23_NoWorkerBeforeDone ==
    \A w \in Workers : Alive(w) => queue.done

\* Worker w leaves its loop in this step.
Exits(w) == wpc[w] # "exited" /\ wpc'[w] = "exited"

\* C24: a worker leaves its loop only in a step taken while it holds the
\* queue mutex and sees the queue empty and the done flag set: it never
\* exits while URLs remain, nor on an empty queue that is not yet closed.
C24_ExitOnlyOnEmptyClosedQueue ==
    [][\A w \in Workers :
          Exits(w) => qmtx = w /\ queue.items = <<>> /\ queue.done]_vars

\* One worker has left on the closed queue while another, which found the
\* queue empty before it was closed, is still blocked in the wait.
C24_OneExitedOneStillWaiting ==
    \E w, v \in Workers : wpc[w] = "exited" /\ wpc[v] = "waiting"

\* C25: with every fetch and every limiter acquire returning and fair
\* scheduling, a call of runFullURLFetch that has started returns, and once
\* the done flag is set every worker created leaves its loop (none stays
\* blocked on the condition variable) so that the joins complete.
C25_RunEventuallyReturns ==
    /\ (runResult = "running") ~> (cpc = "idle")
    /\ queue.done ~> AllJoined

\* The done flag has just been set while a worker is blocked in the wait
\* and the wake-up is still to come.
C25_WorkerBlockedWhenDoneIsSet ==
    cpc = "notify" /\ \E w \in Workers : wpc[w] = "waiting"

\* The worker threads created so far in this run, and those inside
\* fetchSummaryCard.
Created == {w \in Workers : wpc[w] # "unborn"}
Fetching == {w \in Workers : wpc[w] = "fetch"}

\* C26 as stated: a run creates exactly min(poolSize, |U|) workers, however
\* it ends.
C26_EveryRunCreatesMinWorkers ==
    cpc = "idle" /\ runResult # "none"
        => Cardinality(Created) = Min(pool_size_, total_)

\* C26: a run never has more than min(poolSize, |U|) workers and has
\* exactly that many when it returns true; a worker is created only by a
\* step of the coordinator's spawn loop, one at a time, in which no worker
\* moves; and at most min(poolSize, |U|) fetches are in flight.
C26_AtMostMinWorkers ==
    /\ [](Cardinality(Created) <= Min(pool_size_, total_))
    /\ [](Returned("true") => Cardinality(Created) = Min(pool_size_, total_))
    /\ [](Cardinality(Fetching) <= Min(pool_size_, total_))
    /\ [][\/ Created' \subseteq Created
          \/ /\ cpc = "spawn"
             /\ Cardinality(Created') = Cardinality(Created) + 1
             /\ \A w \in Created : wpc'[w] = wpc[w]]_vars

\* A pool larger than the list: the run returned true with one worker per
\* URL.
C26_PoolLargerThanList ==
    /\ Returned("true")
    /\ total_ = 1
    /\ pool_size_ = 2
    /\ Created = {1}
    /\ completed_ = 1

\* Worker w moves to position p in this step.
Reaches(w, p) == wpc[w] # p /\ wpc'[w] = p

\* Every card but the one of slot s is left as it was.
OnlySlotWritten(s) ==
    /\ Len(allSummaryCardsVector') = Len(allSummaryCardsVector)
    /\ \A i \in 1..Len(allSummaryCardsVector) :
          i # s + 1 => allSummaryCardsVector'[i] = allSummaryCardsVector[i]

\* C27: for each URL a worker handles, the pop comes first, then the
\* return of the limiter acquire, then the slot claim by fetch-add, then
\* the fetch into that slot, then the increment of completed; the worker
\* does not hold the queue mutex from the acquire to the increment.
C27_PopAcquireClaimFetchCount ==
    /\ [][\A w \in Workers :
             /\ Reaches(w, "acquire") =>
                   /\ wpc[w] = "check" /\ qmtx = w
                   /\ queue.items # <<>> /\ wurl'[w] = Head(queue.items)
             /\ Reaches(w, "claim") => wpc[w] = "acquire" /\ wurl'[w] = wurl[w]
             /\ Reaches(w, "fetch") =>
                   /\ wpc[w] = "claim" /\ wurl'[w] = wurl[w]
                   /\ wslot'[w] = next_slot_ /\ next_slot_' = next_slot_ + 1
             /\ Reaches(w, "progress") =>
                   /\ wpc[w] = "fetch" /\ wslot'[w] = wslot[w]
                   /\ OnlySlotWritten(wslot[w])
                   /\ slotUrl'[wslot[w]] = wurl[w]
                   /\ completed_' = completed_
             /\ wpc[w] = "progress" /\ wpc'[w] # "progress" =>
                   completed_' = completed_ + 1]_vars
    /\ [][completed_' > completed_ =>
             \E w \in Workers : wpc[w] = "progress" /\ wpc'[w] # "progress"]_vars
    /\ [](\A w \in Workers :
             wpc[w] \in {"acquire", "claim", "fetch", "progress"} => qmtx # w)

\* A worker is inside its fetch, after another turn has been counted,
\* while the other worker holds the queue mutex.
C27_FetchingWhileOtherHoldsQueue ==
    \E w, v \in Workers :
        /\ w # v
        /\ wpc[w] = "fetch"
        /\ qmtx = v
        /\ completed_ = 1

\* The number of slot claims made so far in this run.
ClaimsSoFar == Cardinality({s \in RunSlots : fetchCalls[s] > 0})

\* C28: the slot of a card is fixed by the order in which the workers
\* reach the fetch-add, not by the place of the URL in the list: the k-th
\* claim of a run yields slot base + k - 1 whatever URL the claiming worker
\* holds (so a URL popped earlier but claimed later lands further on).
C28_SlotFollowsClaimOrder ==
    [][\A w \in Workers :
          Reaches(w, "fetch") => wslot'[w] = base_slot + ClaimsSoFar]_vars

\* Two workers, two different URLs: the card of the first loaded URL was
\* fetched into the second slot of the run and that of the second URL into
\* the first.
C28_CardsInSwappedSlots ==
    /\ total_ = 2
    /\ QueuedUrls[1] # QueuedUrls[2]
    /\ slotUrl[base_slot] = QueuedUrls[2]
    /\ slotUrl[base_slot + 1] = QueuedUrls[1]

\* C29: during one run completed never decreases, grows by exactly one
\* with each fetch that finishes (decoded or failed) and not otherwise,
\* never exceeds total, and equals total when runFullURLFetch returns true.
C29_CompletedCountsFinishedFetches ==
    /\ [][cpc # "idle" =>
             /\ completed_' >= completed_
             /\ \A w \in Workers :
                   wpc[w] = "progress" /\ wpc'[w] # "progress"
                       => completed_' = completed_ + 1
             /\ completed_' # completed_ =>
                   \E w \in Workers : wpc[w] = "progress" /\ wpc'[w] # "progress"]_vars
    /\ [](completed_ <= total_)
    /\ [](Returned("true") => completed_ = total_)

\* The lines of this run that report completed = total.
FinalLines == {i \in DOMAIN progressLog : progressLog[i].done = progressLog[i].total}

\* The workers that are writing a progress line.
Printing == {w \in Workers : wpc[w] = "print"}

\* C30: a progress line is written only by a worker whose incremented
\* value of completed is a multiple of max(1, total/400) or equals total,
\* and only while it holds the progress mutex, so that two writes never
\* overlap; and every run writes the final line, completed = total,
\* exactly once.
C30_ProgressLinesSerializedFinalLineOnce ==
    /\ [][\A w \in Workers :
             Reaches(w, "print") =>
                 /\ ShouldPrint(wdone[w], total_)
                 /\ progress_mutex_' = w]_vars
    /\ [](\A w \in Printing : progress_mutex_ = w)
    /\ [](Cardinality(Printing) <= 1)
    /\ [](Cardinality(FinalLines) <= 1)
    /\ [](Returned("true") => Cardinality(FinalLines) = 1)

\* C31: for 0 < R < 1000 the bucket holds between 0 and R tokens whenever
\* rate_mutex_ is free; a refill adds elapsed x R clamped to R and sets
\* last_refill_ to the clock value read; tokens_ and last_refill_ are
\* written only by the thread that holds rate_mutex_; and a sleeping
\* thread does not hold it.
C31_BucketBoundedAndGuarded ==
    /\ [](~Unlimited(max_requests_per_sec_) /\ rate_mutex_ = 0
             => tokens_ >= 0 /\ tokens_ <= Capacity(max_requests_per_sec_))
    /\ [][\A c \in Callers :
             lpc[c] = "loop" /\ lpc'[c] = "check" =>
                 /\ rate_mutex_ = c
                 /\ tokens_' = Min(tokens_ + sinceRefill * max_requests_per_sec_[1],
                                   Capacity(max_requests_per_sec_))
                 /\ sinceRefill' = 0]_vars
    /\ [][tokens_' # tokens_ \/ sinceRefill' < sinceRefill =>
             \E c \in Callers :
                 /\ rate_mutex_ = c
                 /\ lpc[c] \in {"loop", "check"}
                 /\ lpc'[c] # lpc[c]]_vars
    /\ [](\A c \in Callers : lpc[c] \in {"sleep", "relock"} => rate_mutex_ # c)

\* One thread sleeps on an empty bucket while another holds rate_mutex_.
C31_SleeperWhileOtherHoldsLock ==
    \E c, d \in Callers :
        /\ c # d
        /\ lpc[c] = "sleep"
        /\ sleepLeft[c] > 0
        /\ rate_mutex_ = d
        /\ tokens_ < TokenUnit(max_requests_per_sec_)

\* The object was constructed with R >= 1000.
RateAtLeast1000 ==
    max_requests_per_sec_[1] >= UnlimitedRate * max_requests_per_sec_[2]

\* C32: with R >= 1000 a call of acquireToken returns in its first step,
\* for any number of concurrent callers: no thread ever takes rate_mutex_
\* or sleeps, and tokens_ and last_refill_ stay as the constructor left
\* them (the time since last_refill_ only grows).
C32_UnlimitedRateTouchesNothing ==
    /\ [](RateAtLeast1000 =>
             /\ rate_mutex_ = 0
             /\ tokens_ = Capacity(max_requests_per_sec_)
             /\ \A c \in Callers : lpc[c] \in {"idle", "entry"})
    /\ [][RateAtLeast1000 =>
             /\ tokens_' = tokens_
             /\ sinceRefill' >= sinceRefill
             /\ \A c \in Callers : lpc[c] = "entry" /\ lpc'[c] # "entry"
                                       => lpc'[c] = "idle"]_vars

\* Every thread has made all its calls at R = 1000 and a second has passed
\* since construction.
C32_AllCallsReturnedAtUnlimitedRate ==
    /\ RateAtLeast1000
    /\ \A c \in Callers : calls[c] = MaxCalls /\ lpc[c] = "idle"
    /\ sinceRefill = TicksPerSec

\* The sleeps the claim names, in milliseconds.
BackoffSchedule == <<250, 500, 1000>>

\* C33: no sleep precedes attempt 0; attempt k = 1, 2, 3 is preceded by
\* the clearing of the card and a sleep of 250, 500, 1000 ms; and when
\* fetchSummaryCard returns, the raw body of the card holds the bytes
\* received during the last attempt and nothing else.
C33_BackoffScheduleAndLastBodyOnly ==
    /\ [](\A w \in Workers :
             wpc[w] = "fetch"
                 => slept[w] = SubSeq(BackoffSchedule, 1, attempt[w] - 1))
    /\ [](\A w \in Workers :
             wpc[w] = "progress" =>
                 /\ slept[w] = SubSeq(BackoffSchedule, 1, attempt[w])
                 /\ SlotCard(w).rawData = received[w])

\* A fetch returned from its fourth attempt with a body, after three
\* failed attempts and the three sleeps.
C33_ReturnedAfterThreeSleeps ==
    \E w \in Workers :
        /\ wpc[w] = "progress"
        /\ attempt[w] = MAX_RETRIES
        /\ slept[w] = BackoffSchedule
        /\ received[w] # <<>>

\* The spawn loop of enrichCardsWithMetadata has ended.
SlicesHanded == epc \in {"join", "returned", "crashed"} /\ handed # <<>>

\* C34: for every number of cards n >= 1 and of threads nThreads >= 1 the
\* ranges handed to the enrichment tasks are non-empty, each starts where
\* the one before ends, the first starts at 0 and the last ends at n: they
\* are contiguous, pairwise disjoint and cover [0, n), so that every card
\* belongs to the range of exactly one task.
C34_RangesPartitionTheCards ==
    /\ \A k \in 1..Len(handed) :
          /\ handed[k].start < handed[k].end
          /\ handed[k].end <= Len(ecards)
          /\ handed[k].start = IF k = 1 THEN 0 ELSE handed[k - 1].end
    /\ SlicesHanded =>
          /\ handed[Len(handed)].end = Len(ecards)
          /\ \A i \in 0..(Len(ecards) - 1) :
                Cardinality({k \in 1..Len(handed) :
                                handed[k].start <= i /\ i < handed[k].end}) = 1

\* Three cards and two threads: the ranges [0, 2) and [2, 3), the first
\* run by the caller after a failed pthread_create, the second by a thread.
C34_UnevenSlicesCallerAndThread ==
    /\ SlicesHanded
    /\ Len(ecards) = 3
    /\ nThreads = 2
    /\ handed = <<[start |-> 0, end |-> 2, by |-> "caller"],
                  [start |-> 2, end |-> 3, by |-> "thread"]>>

\* Card c was turned into d by a stamp the lookup lk dictates.
StampedFrom(c, d, lk) ==
    /\ c.indicatorVector # <<>>
    /\ CardKey(c) \in DOMAIN lk
    /\ d = [c EXCEPT !.schoolName = lk[CardKey(c)][1], !.year = lk[CardKey(c)][2]]

\* C35: the enrichment pass changes only schoolName and year, and only of
\* cards with indicators whose first indicator's key is in the lookup;
\* every other card and every other field stays as it was; and with no
\* cards or an empty metadata map nothing changes.
C35_OnlyNameAndYearOfKeyedCards ==
    /\ [][/\ Len(ecards') = Len(ecards)
          /\ \A i \in 1..Len(ecards) :
                \/ ecards'[i] = ecards[i]
                \/ StampedFrom(ecards[i], ecards'[i], BuildLookup(urlMetadata))]_vars
    /\ [][ecards = <<>> \/ DOMAIN urlMetadata = {} => ecards' = ecards]_vars

\* C36: enrichCardsWithMetadata returns only after every range has been
\* processed and every thread it created has ended, whatever calls of
\* pthread_create failed: at the return no enrichment thread is running.
C36_ReturnsAfterEveryThreadEnded ==
    epc = "returned" =>
        \A t \in DOMAIN ethread : ethread[t].st \in {"none", "done"}


\* C37: on every return path of runFullURLFetch, true or false, every HTTP
\* handle the run created has been released, none was released while its
\* worker was still running, and the resolve-override list has been freed.
C37_HandlesAndResolveListReleased ==
    /\ \A w \in Workers :
           handles[w] = "freed" => wpc[w] \in {"unborn", "exited"}
    /\ (cpc = "idle" /\ runResult \in {"true", "false"}
           /\ setupFailure # "no_urls") =>
           /\ \A w \in Workers : handles[w] # "live"
           /\ resolve_list # "live"


\* The coordinator is between a failed pthread_create and its return.
AfterSpawnFailure == cpc \in {"fsignal", "fset", "fnotify", "joinfail"}

\* C38: after a failed pthread_create the coordinator creates no further
\* worker, sets the queue's done flag and wakes every waiting worker before
\* it joins, and returns false only when every worker it created has exited:
\* at that return no worker is running.
C38_SpawnFailureJoinsBeforeReturningFalse ==
    /\ [][AfterSpawnFailure =>
             /\ spawned' = spawned
             /\ \A w \in Workers : wpc[w] = "unborn" => wpc'[w] = "unborn"]_vars
    /\ [](cpc = "joinfail" =>
             /\ queue.done
             /\ \A w \in Workers : wpc[w] # "waiting")
    /\ []((cpc = "idle" /\ runResult = "false") =>
             \A w \in Workers : wpc[w] \in {"unborn", "exited"})

C38_FalseAfterJoiningABusyWorker ==
    /\ cpc = "idle"
    /\ runResult = "false"
    /\ setupFailure = "pthread_create"
    /\ spawned = 1
    /\ wpc[1] = "exited"
    /\ completed_ >= 1


\* Both versions have run on the list and returned.
BothRan == PoolHasRun /\ gpc = "idle" /\ gResult \in {"true", "false"}

\* Every URL of the list got a final response in both versions, and the
\* same one: the final responses of the pool's fetches pair off with the
\* responses of the threads, URL by URL and byte by byte.
SameFinalResponses ==
    /\ Cardinality(finalResponse) = Len(urls_)
    /\ \E f \in [1..Len(urls_) -> finalResponse] :
          /\ \A i, j \in 1..Len(urls_) : f[i] = f[j] => i = j
          /\ \A i \in 1..Len(urls_) :
                /\ f[i].url = urls_[i]
                /\ gthread[i].resp = <<f[i].data>>

Count(seq, x) == Cardinality({k \in DOMAIN seq : seq[k] = x})

RawBodies(cardSeq) == [k \in DOMAIN cardSeq |-> cardSeq[k].rawData]

SameBag(a, b) ==
    /\ Len(a) = Len(b)
    /\ \A k \in DOMAIN a : Count(a, a[k]) = Count(b, a[k])

\* C39: the slotted delivery refines the lock-guarded one: for the same URL
\* list and the same final response body for each URL, when both versions
\* have returned each has added exactly one card per URL to its array and
\* the raw bodies of the cards are the same multiset.
C39_SlottedRefinesLockGuarded ==
    (BothRan /\ SameFinalResponses) =>
        /\ Len(allSummaryCardsVector) = Len(urls_)
        /\ Len(guardedVector) = Len(urls_)
        /\ SameBag(RawBodies(allSummaryCardsVector), RawBodies(guardedVector))

C39_SameBodiesInAnotherOrder ==
    /\ BothRan
    /\ SameFinalResponses
    /\ Len(urls_) = 2
    /\ allSummaryCardsVector[1].rawData # <<>>
    /\ allSummaryCardsVector[2].rawData # <<>>
    /\ allSummaryCardsVector[1].rawData # allSummaryCardsVector[2].rawData
    /\ allSummaryCardsVector[1].rawData = guardedVector[2].rawData


\* C40: the loaded list persists across runs.  No step of a run changes
\* urls_; every call that starts a run queues the whole list again, grows
\* the array by Len(urls_) cards, resets completed_ to 0 and restarts the
\* slot counter at the new base; and a run that is not the first on the
\* object has fetched every URL of the list once when it returns true.
C40_SecondRunRefetchesLoadedUrls ==
    /\ [][cpc # "idle" => urls_' = urls_]_vars
    /\ [][(cpc = "idle" /\ cpc' # "idle") =>
             /\ urls_' = urls_
             /\ queue'.items = urls_
             /\ Len(allSummaryCardsVector') =
                    Len(allSummaryCardsVector) + Len(urls_)
             /\ total_' = Len(urls_)
             /\ completed_' = 0
             /\ base_slot' = Len(allSummaryCardsVector)
             /\ next_slot_' = base_slot']_vars
    /\ []((cpc = "idle" /\ runResult = "true" /\ base_slot > 0) =>
             \A s \in base_slot..(base_slot + total_ - 1) : fetchCalls[s] = 1)

====
